---- MODULE Spec2Model ----
(***************************************************************************)
(* Model of the HTMS traffic system (Siraj128/Final_Traffic_System).       *)
(*                                                                         *)
(* The parts of the system are modelled each with its own specification:   *)
(*   Spec / LiveSpec : the edge node - the cycle thread of MainController, *)
(*                     the background bridge thread (CMSConnector), the    *)
(*                     shutdown paths and the telemetry producers.         *)
(*   FedSpec         : the federation controller (cms_layer/server.py).    *)
(*   StoreSpec       : SharedQueue with its lock, at statement level.      *)
(*   DecideSpec      : _calculate_next_phase / DecisionMaker.decide_signals*)
(*                     on any detections, with or without a lane matrix.   *)
(*   FnSpec          : classify_state and HybridCore.process_hybrid_data   *)
(*                     applied to arguments drawn from bounded sets.       *)
(*   GridSpec        : GridCore.get_grid_system_status on any cell fills.  *)
(*   ConnSpec        : the bridge thread and CMSConnector on their own,    *)
(*                     every pulse observed.                               *)
(*   FreezeSpec      : the cycle thread with FreezeSession's snapshot file.*)
(*   ThrottleSpec    : _trigger_advanced_throttling on any feeder map.     *)
(*   RaceSpec        : the enqueue of a command against get_commands, at   *)
(*                     statement level.                                    *)
(*   InjectSpec      : the injection endpoint among polls and heartbeats.  *)
(*   ShutdownSpec    : the edge node with both of its threads scheduled    *)
(*                     fairly, for the shutdown paths.                     *)
(*   CycleSpec       : the cycle thread with the vision producer writing   *)
(*                     between the FREEZE capture and the decision.        *)
(*   OverrideSpec    : the edge node polled with two throttled lanes at    *)
(*                     once.                                               *)
(*   CaptureSpec     : SharedQueue with FreezeSession.capture.             *)
(*   PoolSpec        : ProfileManager's get_profile / release_profile.     *)
(***************************************************************************)
EXTENDS Integers, Sequences, FiniteSets, TLC

(***************************************************************************)
(* Program constants                                                       *)
(***************************************************************************)
G_MIN == 15
G_MAX == 90
GRID_SCALAR == 100
GREEN_MIN == 15
GREEN_MAX == 90
YELLOW_DURATION == 15
FREEZE_OFFSET == 3
DEADLINE_OFFSET == 10
THRESHOLD_SAFE == 50
THRESHOLD_LESS == 20

(***************************************************************************)
(* Bounds of the model                                                     *)
(***************************************************************************)
NumScen == 2
NumCmdLanes == 1
MaxCmds == 1
MaxDelivered == 1

Phases == <<"North", "South", "East", "West">>
PhaseSet == {"North", "South", "East", "West"}

PhaseIdx(p) == CHOOSE i \in 1..4 : Phases[i] = p

Min2(a, b) == IF a < b THEN a ELSE b
Max2(a, b) == IF a > b THEN a ELSE b

RECURSIVE SumSeq(_)
SumSeq(s) == IF s = <<>> THEN 0 ELSE Head(s) + SumSeq(Tail(s))

VARIABLES
  \* ---- edge node: MainController ----
  pc,                 \* position of the cycle thread in _main_loop
  state,              \* MainController.state
  current_winner,
  current_green_time,
  current_signal,     \* SignalInterface.current_signal
  current_phase,      \* SignalInterface.current_phase
  stop_event,         \* MainController._stop_event
  cms_override,       \* MainController._cms_override
  result,             \* local 'result' of _main_loop
  next_local,         \* locals next_winner / next_green / override seen
  current_state,      \* DecisionMaker.current_state
  prev_open_lanes,    \* DecisionMaker.prev_open_lanes
  snapshot,           \* FreezeSession.snapshot
  \* ---- edge node: bridge thread and connector ----
  cms_connector,      \* TRUE iff MainController.cms_connector is not None
  bpc,                \* position of _background_loop
  connected,          \* CMSConnector.connected
  active_overrides,   \* CMSConnector.active_overrides (insertion ordered)
  todo,               \* items of 'overrides' the for loop has still to visit
  \* ---- edge node: shutdown ----
  shutdown_returned,  \* a call of shutdown() has returned
  \* ---- edge node: history (observation only) ----
  actuated,           \* a GREEN actuation has happened
  clearance,          \* signals seen since the last GREEN: none / y / yr
  delivered,          \* THROTTLE_ADJUST commands delivered by polls
  forced,             \* ACTUATIONs whose winner was forced (saturating)
  hb_history,         \* heartbeats so far: none / failed (all) / ok (some)
  persist_log,        \* the last FreezeSession.capture: what it returned, whether the write failed
  calc_log,           \* what the vision threads wrote last, what FREEZE captured, what the calculation read
  tick_log,           \* the last pulse of the bridge: its heartbeat and whether it polled
  restored,           \* lane of _cms_override, if a RESTORE_NORMAL for it was polled
  elapsed,            \* seconds the cycle thread spent since the signal changed
  \* ---- federation controller ----
  active_interventions,  \* rows of table active_interventions
  pending_commands,      \* server.pending_commands
  latest_score_cache,    \* server.latest_score_cache
  background_tasks,      \* FastAPI background tasks not yet run
  db_up,                 \* get_db_connection() currently succeeds
  fed_last,              \* last request handled (observation only)
  inject_log,            \* injections: the last one, and the junctions jammed since (observation only)
  \* ---- SharedQueue at statement level ----
  lock, q_data, q_raw, q_status, q_last_update,
  ppc, call_id, call_raw, rpc, snap, next_id,
  at_acquire, started_at_acquire, snap_done,
  \* ---- DecisionMaker and the scoring functions called on their own ----
  combo_file,         \* what is at combo_path: the lane matrix file's condition
  dm_constructed,     \* DecisionMaker() returned (FALSE: it raised)
  lane_combinations_loaded,  \* DecisionMaker.lane_combinations
  decision,           \* the last decide_signals call: what it read and returned
  saturation,         \* argument of classify_state, in percent
  classified,         \* what classify_state returned
  hybrid_in,          \* arguments of HybridCore.process_hybrid_data
  hybrid_out,         \* what process_hybrid_data returned
  grid_in,            \* GridCore: the lane's event status and its cells' fill percentages
  grid_out,           \* the lane's "val" in what get_grid_system_status returned
  throttle_call,      \* _trigger_advanced_throttling called on its own: its inputs
  race,               \* the enqueue of lines 796-807 and get_commands, statement by statement
  \* ---- ProfileManager (vision_fast/utils/profile_manager.py) ----
  available_indices,  \* ProfileManager.available_indices
  used_indices,       \* ProfileManager.used_indices
  track_map,          \* per caller: the indices of the profiles it took and has not released
  handles,            \* per caller: the indices of the profile dicts it has ever received
  pool_last           \* the last call of the pool and what it returned (observation only)

edgeVars == <<pc, state, current_winner, current_green_time, current_signal,
              current_phase, stop_event, cms_override, result, next_local,
              current_state, prev_open_lanes, snapshot,
              cms_connector, bpc, connected, active_overrides, todo,
              shutdown_returned,
              actuated, clearance, delivered, forced, hb_history, tick_log, persist_log,
              calc_log, restored, elapsed>>

fedVars == <<active_interventions, pending_commands, latest_score_cache,
             background_tasks, db_up, fed_last, inject_log>>

storeVars == <<lock, q_data, q_raw, q_status, q_last_update,
               ppc, call_id, call_raw, rpc, snap, next_id,
               at_acquire, started_at_acquire, snap_done>>

serverCallVars == <<throttle_call, race>>
poolVars == <<available_indices, used_indices, track_map, handles, pool_last>>

fnVars == <<combo_file, dm_constructed, lane_combinations_loaded, decision,
            saturation, classified, hybrid_in, hybrid_out, grid_in, grid_out,
            serverCallVars, poolVars>>

vars == <<edgeVars, fedVars, storeVars, fnVars>>


(***************************************************************************)
(* Telemetry scenarios: what the producers can put into the store.  A      *)
(* scenario gives, per phase, the far-zone grade (times 100) and the raw   *)
(* near-zone totals of the two sub-lanes.                                  *)
(***************************************************************************)
Scenario(i) ==
  [p \in PhaseSet |->
     LET k == PhaseIdx(p) IN
     [grid100 |-> 100 + 100 * ((i * k) % 5),
      straight |-> 50 * ((i + k) % 3),
      left |-> 25 * ((i + 2 * k) % 4)]]

ScenIds == 1..NumScen

NoLanes == <<>>

\* f"{phase}_Left", f"{phase}_All", ... : a lane id is a pair
LaneId(p, kind) == <<p, kind>>

\* config/lane_combinations.json (content of the data file)
lane_combinations ==
  [p \in {"North", "South", "East"} |->
     [st \in {"SAFE", "LESS_CONGESTION"} |->
        IF st = "SAFE"
        THEN <<LaneId(p, "Straight"), LaneId(p, "Left")>>
        ELSE <<LaneId(p, "All"), LaneId(p, "Left")>>]]

InSeq(x, s) == \E i \in 1..Len(s) : s[i] = x

\* classify_state with > replaced by >=
classify_state_inclusive(num, den) ==
  IF 100 * num >= THRESHOLD_SAFE * den THEN "SAFE"
  ELSE IF 100 * num >= THRESHOLD_LESS * den THEN "LESS_CONGESTION"
  ELSE "MORE_LESSER_CONGESTION"

classify_state(num, den) ==
  IF 100 * num > THRESHOLD_SAFE * den THEN "SAFE"
  ELSE IF 100 * num > THRESHOLD_LESS * den THEN "LESS_CONGESTION"
  ELSE "MORE_LESSER_CONGESTION"

\* self.lane_combinations when the data file does not exist
NoCombinations == <<>>

\* what can be at combo_path: no file, a file of zero bytes, a file that is
\* not JSON, the JSON object {}, the lane matrix
ComboFiles == {"missing", "empty", "malformed", "empty_object", "matrix"}

\* json.load raises JSONDecodeError on text that is not a JSON document, and
\* nothing in __init__ catches it; the attribute is then never assigned
_load_lane_combinations(file) ==
  IF file = "missing" THEN [raised |-> FALSE, lane_combinations |-> NoCombinations]
  ELSE IF file \in {"empty", "malformed"}
       THEN [raised |-> TRUE, lane_combinations |-> NoCombinations]
  ELSE IF file = "empty_object"
       THEN [raised |-> FALSE, lane_combinations |-> NoCombinations]
  ELSE [raised |-> FALSE, lane_combinations |-> lane_combinations]

\* _get_allowed_lanes falling back to the winner's SAFE entry for a state
\* the matrix does not list
_get_allowed_lanes_defaultsToSafe(combos, winner_phase, st) ==
  IF DOMAIN combos = {} THEN <<LaneId(winner_phase, "All")>>
  ELSE IF winner_phase \notin DOMAIN combos
       THEN <<LaneId(winner_phase, "All")>>
  ELSE IF st \notin DOMAIN combos[winner_phase]
       THEN combos[winner_phase]["SAFE"]
  ELSE combos[winner_phase][st]

\* combos is self.lane_combinations
_get_allowed_lanes(combos, winner_phase, st) ==
  IF DOMAIN combos = {} THEN <<LaneId(winner_phase, "All")>>
  ELSE IF winner_phase \notin DOMAIN combos
       THEN <<LaneId(winner_phase, "All")>>
  ELSE IF st \notin DOMAIN combos[winner_phase]
       THEN <<LaneId(winner_phase, "All")>>
  ELSE combos[winner_phase][st]

\* process_hybrid_data with the discount given in every congestion state
process_hybrid_data_ignoresState(phase, veh, congestion_state, opened_lanes) ==
  LET was_open == InSeq(LaneId(phase, "Left"), opened_lanes)
  IN [grid100 |-> veh.grid100,
      priority_straight |-> veh.straight,
      priority_left2 |-> IF was_open THEN veh.left ELSE 2 * veh.left]

\* HybridCore: left priority in halves (the 0.5 multiplier), straight whole
process_hybrid_data(phase, veh, congestion_state, opened_lanes) ==
  LET was_open == InSeq(LaneId(phase, "Left"), opened_lanes)
      apply_reduction == congestion_state \in {"SAFE", "LESS_CONGESTION"}
  IN [grid100 |-> veh.grid100,
      priority_straight |-> veh.straight,
      priority_left2 |-> IF was_open /\ apply_reduction
                         THEN veh.left ELSE 2 * veh.left]

\* max() returning the last key with the maximum value
MaxKey_lastMax(scores) ==
  Phases[CHOOSE i \in 1..4 :
           /\ \A j \in 1..4 : scores[Phases[j]] <= scores[Phases[i]]
           /\ \A j \in (i + 1)..4 : scores[Phases[j]] < scores[Phases[i]]]

\* first key with the maximum value, in the dict's insertion order
MaxKey(scores) ==
  Phases[CHOOSE i \in 1..4 :
           /\ \A j \in 1..4 : scores[Phases[j]] <= scores[Phases[i]]
           /\ \A j \in 1..(i - 1) : scores[Phases[j]] < scores[Phases[i]]]

\* decide_signals with STEP 4 (the new congestion state) done before STEP 1
decide_signals_newStateFirst(vehicle_data, cur_state, open_lanes, combos) ==
  LET early_state ==
        classify_state(SumSeq([i \in 1..4 |-> vehicle_data[Phases[i]].grid100 - 100]),
                       400 * 4)
      data == [p \in PhaseSet |->
                 process_hybrid_data(p, vehicle_data[p], early_state, open_lanes)]
      \* composite score in halves: grid_val * 100 + straight + left
      composite2 == [p \in PhaseSet |->
                       2 * (data[p].grid100 * (GRID_SCALAR \div 100))
                       + 2 * data[p].priority_straight + data[p].priority_left2]
      raw_scores == [p \in PhaseSet |-> composite2[p] \div 2]
      total2 == SumSeq([i \in 1..4 |-> composite2[Phases[i]]])
      green_times == [p \in PhaseSet |->
                        IF total2 = 0 THEN G_MIN
                        ELSE G_MIN + (raw_scores[p] * (G_MAX - G_MIN) * 2) \div total2]
      satsum == SumSeq([i \in 1..4 |-> data[Phases[i]].grid100 - 100])
      new_state == classify_state(satsum, 400 * 4)
      winner_phase == MaxKey(raw_scores)
  IN [priority_scores |-> raw_scores,
      allocated_times |-> green_times,
      system_state |-> new_state,
      details |-> data,
      prev_open_lanes |-> _get_allowed_lanes(combos, winner_phase, new_state)]

\* vehicle_data gives each phase's zone totals; cur_state, open_lanes and
\* combos are the fields of the DecisionMaker the call reads
decide_signals(vehicle_data, cur_state, open_lanes, combos) ==
  LET data == [p \in PhaseSet |->
                 process_hybrid_data(p, vehicle_data[p], cur_state, open_lanes)]
      \* composite score in halves: grid_val * 100 + straight + left
      composite2 == [p \in PhaseSet |->
                       2 * (data[p].grid100 * (GRID_SCALAR \div 100))
                       + 2 * data[p].priority_straight + data[p].priority_left2]
      raw_scores == [p \in PhaseSet |-> composite2[p] \div 2]
      total2 == SumSeq([i \in 1..4 |-> composite2[Phases[i]]])
      green_times == [p \in PhaseSet |->
                        IF total2 = 0 THEN G_MIN
                        ELSE G_MIN + (raw_scores[p] * (G_MAX - G_MIN) * 2) \div total2]
      satsum == SumSeq([i \in 1..4 |-> data[Phases[i]].grid100 - 100])
      new_state == classify_state(satsum, 400 * 4)
      winner_phase == MaxKey(raw_scores)
  IN [priority_scores |-> raw_scores,
      allocated_times |-> green_times,
      system_state |-> new_state,
      details |-> data,
      prev_open_lanes |-> _get_allowed_lanes(combos, winner_phase, new_state)]

_calculate_next_phase(frozen_data, dm_state, dm_open, combos) ==
  LET res == decide_signals(frozen_data.raw_detections, dm_state, dm_open, combos)
      scores == res.priority_scores
      winner == MaxKey(scores)
      green_time == Max2(GREEN_MIN, Min2(GREEN_MAX, res.allocated_times[winner]))
  IN [winner |-> winner, green_time |-> green_time, scores |-> scores,
      state |-> res.system_state, open |-> res.prev_open_lanes,
      \* what decide_signals returned (result), for observation
      decided |-> res]


CongestionStates == {"SAFE", "LESS_CONGESTION", "MORE_LESSER_CONGESTION"}

\* the values DecisionMaker.prev_open_lanes can take
OpenLaneValues ==
  {NoLanes} \cup {_get_allowed_lanes(lane_combinations, w, st) :
                     w \in PhaseSet, st \in CongestionStates}

\* _calculate_next_phase tabulated once over the decision maker's inputs
CalcKeys == ScenIds \X CongestionStates \X OpenLaneValues

CalcRows ==
  {<<k, _calculate_next_phase([raw_detections |-> Scenario(k[1])], k[2], k[3],
                              lane_combinations)>> : k \in CalcKeys}

CalcTable(scen, dm_state, dm_open) ==
  (CHOOSE row \in CalcRows : row[1] = <<scen, dm_state, dm_open>>)[2]

\* tick_log before any pulse was observed; the cycle specifications leave
\* the observation off, the connector's specification switches it on
NoTick == [observed |-> FALSE]
\* persist_log before any capture was observed; switched on by the
\* specification of the cycle with the snapshot file
NoCapture == [observed |-> FALSE]
\* calc_log while the inputs of the calculation are not observed
NoCalc == [observed |-> FALSE]

FirstTick == [observed |-> TRUE, hb |-> "none", prev_hb |-> "none",
              was_connected |-> FALSE, had_overrides |-> FALSE, cleared |-> TRUE,
              poll_sent |-> FALSE, po |-> "not sent"]

(***************************************************************************)
(* Edge node: initial state (MainController.__init__, start)               *)
(***************************************************************************)
NoOverride == [lane |-> "none", value |-> 0]
NoResult == [winner |-> "none", green_time |-> 0]
NoLocal == [winner |-> "none", green_time |-> 0, seen |-> FALSE]
\* calc_log switched on, nothing captured yet
FirstCalc == [observed |-> TRUE, live |-> 0, frozen |-> [raw_detections |-> 0],
              fresh |-> FALSE,
              used |-> [state |-> "none", open |-> NoLanes, fresh |-> FALSE,
                        moved |-> FALSE]]

NoSnapshot == [raw_detections |-> 0, congestion_state |-> "none",
               opened_lanes |-> NoLanes]

CmdLanes == {Phases[i] : i \in 1..Min2(NumCmdLanes, 4)}

Throttle(l, v) == [command_type |-> "THROTTLE_ADJUST", target_lane |-> l, value |-> v]
Restore(l) == [command_type |-> "RESTORE_NORMAL", target_lane |-> l, value |-> 0]

EdgeInitFields ==
  /\ pc = "check"
  /\ state = "GREEN"
  /\ current_green_time = GREEN_MIN
  /\ current_winner = "North"
  /\ current_signal = "RED_ALL"
  /\ current_phase = "none"
  /\ stop_event = FALSE
  /\ cms_override = NoOverride
  /\ result = NoResult
  /\ next_local = NoLocal
  /\ current_state = "SAFE"
  /\ prev_open_lanes = NoLanes
  /\ snapshot = NoSnapshot
  /\ cms_connector \in BOOLEAN
  /\ bpc = "tick"
  /\ connected = FALSE
  /\ active_overrides = <<>>
  /\ todo = <<>>
  /\ shutdown_returned = FALSE
  /\ actuated = FALSE
  /\ clearance = "none"
  /\ delivered = 0
  /\ forced = 0
  /\ hb_history = "none"
  /\ restored = {}
  /\ elapsed = 0

EdgeInit ==
  /\ EdgeInitFields /\ tick_log = NoTick /\ persist_log = NoCapture
  /\ calc_log = NoCalc

(***************************************************************************)
(* SignalInterface                                                         *)
(***************************************************************************)
actuate(winner_phase) ==
  /\ current_phase' = winner_phase
  /\ current_signal' = "GREEN"
  /\ actuated' = TRUE
  /\ clearance' = "none"

set_yellow ==
  /\ current_signal' = "YELLOW"
  /\ clearance' = IF clearance = "none" THEN "y" ELSE clearance
  /\ UNCHANGED <<current_phase, actuated>>

set_all_red ==
  /\ current_signal' = "RED_ALL"
  /\ clearance' = IF clearance = "y" THEN "yr" ELSE clearance
  /\ UNCHANGED <<current_phase, actuated>>

sigVars == <<current_signal, current_phase, actuated, clearance>>
bridgeVars == <<cms_connector, bpc, connected, active_overrides, todo,
                delivered, hb_history, tick_log, restored>>
dmVars == <<current_state, prev_open_lanes>>

(***************************************************************************)
(* MainController._main_loop, one action per step of the cycle thread      *)
(***************************************************************************)
\* while not self._stop_event.is_set()
LoopCheck ==
  /\ pc = "check"
  /\ pc' = IF stop_event THEN "exited" ELSE "green"
  /\ elapsed' = IF stop_event THEN 0 ELSE elapsed
  /\ UNCHANGED <<fedVars, storeVars, fnVars, persist_log, calc_log, state, current_winner, current_green_time, sigVars, stop_event,
                 cms_override, result, next_local, dmVars, snapshot,
                 bridgeVars, shutdown_returned, forced>>

\* PHASE 1: state = GREEN, actuate(current_winner, prev_open_lanes, green)
LoopGreen ==
  /\ pc = "green"
  /\ state' = "GREEN"
  /\ actuate(current_winner)
  /\ pc' = "green_wait"
  /\ elapsed' = 0
  /\ UNCHANGED <<fedVars, storeVars, fnVars, persist_log, calc_log, current_winner, current_green_time, stop_event,
                 cms_override, result, next_local, dmVars, snapshot,
                 bridgeVars, shutdown_returned, forced>>

\* _interruptible_sleep(green_time - freeze_offset); if stop: break
LoopGreenWait_sleepsWholeGreen ==
  /\ pc = "green_wait"
  /\ pc' = IF stop_event THEN "exited" ELSE "freeze"
  /\ elapsed' = IF stop_event THEN 0 ELSE elapsed + current_green_time
  /\ UNCHANGED <<fedVars, storeVars, fnVars, persist_log, calc_log, state, current_winner, current_green_time, sigVars, stop_event,
                 cms_override, result, next_local, dmVars, snapshot,
                 bridgeVars, shutdown_returned, forced>>

LoopGreenWait ==
  /\ pc = "green_wait"
  /\ pc' = IF stop_event THEN "exited" ELSE "freeze"
  /\ elapsed' = IF stop_event THEN 0
                 ELSE elapsed + Max2(current_green_time - FREEZE_OFFSET, 0)
  /\ UNCHANGED <<fedVars, storeVars, fnVars, persist_log, calc_log, state, current_winner, current_green_time, sigVars, stop_event,
                 cms_override, result, next_local, dmVars, snapshot,
                 bridgeVars, shutdown_returned, forced>>

\* PHASE 2: state = FREEZE, freeze_session.capture(get_snapshot(), ...);
\* telemetry is what the vision threads wrote last
\* outcomes of open(self.persist_path, 'w') and json.dump
DiskOutcomes == {"ok", "OSError", "TypeError"}

\* FreezeSession._persist with the exception let through
_persist_propagates(disk) == [raised |-> disk # "ok", written |-> disk = "ok"]

\* FreezeSession._persist: try ... except Exception: pass
_persist(disk) == [raised |-> FALSE, written |-> disk = "ok"]

\* FreezeSession.capture: self.snapshot = {...}; self._persist(); return self.snapshot
capture(telemetry, congestion_state, opened_lanes, disk) ==
  LET self_snapshot == [raw_detections |-> telemetry,
                        congestion_state |-> congestion_state,
                        opened_lanes |-> opened_lanes]
      p == _persist(disk)
  IN [snapshot |-> self_snapshot, raised |-> p.raised,
      returned |-> IF p.raised THEN NoSnapshot ELSE self_snapshot]

LoopFreeze_keepsState(telemetry) ==
  /\ pc = "freeze"
  /\ state' = state
  /\ snapshot' = [raw_detections |-> telemetry,
                  congestion_state |-> current_state,
                  opened_lanes |-> prev_open_lanes]
  /\ pc' = "freeze_wait"
  /\ UNCHANGED elapsed
  /\ UNCHANGED <<fedVars, storeVars, fnVars, persist_log, calc_log, current_winner, current_green_time, sigVars, stop_event,
                 cms_override, result, next_local, dmVars, bridgeVars, shutdown_returned, forced>>

LoopFreeze(telemetry) ==
  /\ pc = "freeze"
  /\ state' = "FREEZE"
  /\ \E disk \in DiskOutcomes :
       LET c == capture(telemetry, current_state, prev_open_lanes, disk)
       IN /\ snapshot' = c.snapshot
          /\ pc' = IF c.raised THEN "sd_stop" ELSE "freeze_wait"
          /\ persist_log' = IF persist_log.observed
                            THEN [observed |-> TRUE, failed |-> disk # "ok",
                                  raised |-> c.raised, returned |-> c.returned]
                            ELSE persist_log
          /\ calc_log' = IF calc_log.observed
                         THEN [calc_log EXCEPT !.frozen = c.snapshot,
                                               !.fresh = TRUE,
                                               !.live = telemetry]
                         ELSE calc_log
  /\ UNCHANGED elapsed
  /\ UNCHANGED <<fedVars, storeVars, fnVars, current_winner, current_green_time, sigVars, stop_event,
                 cms_override, result, next_local, dmVars, bridgeVars, shutdown_returned, forced>>

\* the wait after FREEZE without the check of the stop event behind it
LoopFreezeWait_noCheck ==
  /\ pc = "freeze_wait"
  /\ pc' = "yellow"
  /\ elapsed' = IF stop_event THEN elapsed ELSE elapsed + FREEZE_OFFSET
  /\ UNCHANGED <<fedVars, storeVars, fnVars, persist_log, calc_log, state, current_winner, current_green_time, sigVars, stop_event,
                 cms_override, result, next_local, dmVars, snapshot,
                 bridgeVars, shutdown_returned, forced>>

\* _interruptible_sleep(freeze_offset); if stop: break
LoopFreezeWait ==
  /\ pc = "freeze_wait"
  /\ pc' = IF stop_event THEN "exited" ELSE "yellow"
  /\ elapsed' = IF stop_event THEN 0 ELSE elapsed + FREEZE_OFFSET
  /\ UNCHANGED <<fedVars, storeVars, fnVars, persist_log, calc_log, state, current_winner, current_green_time, sigVars, stop_event,
                 cms_override, result, next_local, dmVars, snapshot,
                 bridgeVars, shutdown_returned, forced>>

\* PHASE 3: state = YELLOW, set_yellow
LoopYellow ==
  /\ pc = "yellow"
  /\ state' = "YELLOW"
  /\ set_yellow
  /\ pc' = "calc"
  /\ elapsed' = 0
  /\ UNCHANGED <<fedVars, storeVars, fnVars, persist_log, calc_log, current_winner, current_green_time, stop_event,
                 cms_override, result, next_local, dmVars, snapshot,
                 bridgeVars, shutdown_returned, forced>>

\* whole seconds _calculate_next_phase can take: decide_signals and the
\* POST of push_to_carla with its timeout
CalcDurations == {0, 1}

\* at the calculation: the live store holds detections that would give
\* another winner than the frozen ones
StoreMoved ==
  /\ calc_log.live # snapshot.raw_detections
  /\ CalcTable(calc_log.live, current_state, prev_open_lanes).winner
       # CalcTable(snapshot.raw_detections, current_state, prev_open_lanes).winner

\* the calculation reading the shared queue instead of the frozen snapshot
LoopCalc_readsLive(took) ==
  /\ pc = "calc"
  /\ elapsed' = elapsed + took
  /\ \E r \in {CalcTable(calc_log.live, current_state, prev_open_lanes)} :
        /\ result' = [winner |-> r.winner, green_time |-> r.green_time]
        /\ current_state' = r.state
        /\ prev_open_lanes' = r.open
  /\ calc_log' = IF calc_log.observed
                 THEN [calc_log EXCEPT !.fresh = FALSE,
                                       !.live = 0,
                                       !.used = [state |-> current_state,
                                                 open |-> prev_open_lanes,
                                                 fresh |-> calc_log.fresh,
                                                 moved |-> StoreMoved]]
                 ELSE calc_log
  /\ snapshot' = NoSnapshot
  /\ pc' = "yellow_wait"
  /\ UNCHANGED <<fedVars, storeVars, fnVars, persist_log, state, current_winner, current_green_time, sigVars, stop_event,
                 cms_override, next_local, bridgeVars, shutdown_returned, forced>>

\* result = self._calculate_next_phase(frozen), taking 'took' seconds;
\* frozen is not read again
LoopCalc(took) ==
  /\ pc = "calc"
  /\ elapsed' = elapsed + took
  /\ \E r \in {CalcTable(snapshot.raw_detections, current_state, prev_open_lanes)} :
        /\ result' = [winner |-> r.winner, green_time |-> r.green_time]
        /\ current_state' = r.state
        /\ prev_open_lanes' = r.open
  /\ calc_log' = IF calc_log.observed
                 THEN [calc_log EXCEPT !.fresh = FALSE,
                                       !.live = 0,
                                       !.used = [state |-> current_state,
                                                 open |-> prev_open_lanes,
                                                 fresh |-> calc_log.fresh,
                                                 moved |-> StoreMoved]]
                 ELSE calc_log
  /\ snapshot' = NoSnapshot
  /\ pc' = "yellow_wait"
  /\ UNCHANGED <<fedVars, storeVars, fnVars, persist_log, state, current_winner, current_green_time, sigVars, stop_event,
                 cms_override, next_local, bridgeVars, shutdown_returned, forced>>

\* _interruptible_sleep(yellow_duration); if stop: break
LoopYellowWait_skipsAllRed ==
  /\ pc = "yellow_wait"
  /\ pc' = IF stop_event THEN "exited" ELSE "red_wait"
  /\ elapsed' = IF stop_event THEN 0 ELSE elapsed + YELLOW_DURATION
  /\ UNCHANGED <<fedVars, storeVars, fnVars, persist_log, calc_log, state, current_winner, current_green_time, sigVars, stop_event,
                 cms_override, result, next_local, dmVars, snapshot,
                 bridgeVars, shutdown_returned, forced>>

LoopYellowWait ==
  /\ pc = "yellow_wait"
  /\ pc' = IF stop_event THEN "exited" ELSE "allred"
  /\ elapsed' = IF stop_event THEN 0 ELSE elapsed + YELLOW_DURATION
  /\ UNCHANGED <<fedVars, storeVars, fnVars, persist_log, calc_log, state, current_winner, current_green_time, sigVars, stop_event,
                 cms_override, result, next_local, dmVars, snapshot,
                 bridgeVars, shutdown_returned, forced>>

\* PHASE 4: state = ACTUATION, set_all_red
LoopAllRed ==
  /\ pc = "allred"
  /\ state' = "ACTUATION"
  /\ set_all_red
  /\ pc' = "red_wait"
  /\ elapsed' = 0
  /\ UNCHANGED <<fedVars, storeVars, fnVars, persist_log, calc_log, current_winner, current_green_time, stop_event,
                 cms_override, result, next_local, dmVars, snapshot,
                 bridgeVars, shutdown_returned, forced>>

\* _interruptible_sleep(2): self._stop_event.wait(timeout=2) returns at once
\* when the event is set
LoopRedWait_waitsForBridge ==
  /\ pc = "red_wait"
  /\ (cms_connector => connected)
  /\ pc' = "apply"
  /\ elapsed' = IF stop_event THEN elapsed ELSE elapsed + 2
  /\ UNCHANGED <<fedVars, storeVars, fnVars, persist_log, calc_log, state, current_winner, current_green_time, sigVars, stop_event,
                 cms_override, result, next_local, dmVars, snapshot,
                 bridgeVars, shutdown_returned, forced>>

LoopRedWait ==
  /\ pc = "red_wait"
  /\ pc' = "apply"
  /\ elapsed' = IF stop_event THEN elapsed ELSE elapsed + 2
  /\ UNCHANGED <<fedVars, storeVars, fnVars, persist_log, calc_log, state, current_winner, current_green_time, sigVars, stop_event,
                 cms_override, result, next_local, dmVars, snapshot,
                 bridgeVars, shutdown_returned, forced>>

\* next_winner / next_green from result, replaced by a pending override
LoopApply ==
  /\ pc = "apply"
  /\ next_local' = IF cms_override # NoOverride
                   THEN [winner |-> cms_override.lane,
                         green_time |-> cms_override.value, seen |-> TRUE]
                   ELSE [winner |-> result.winner,
                         green_time |-> result.green_time, seen |-> FALSE]
  /\ pc' = "commit"
  /\ UNCHANGED elapsed
  /\ UNCHANGED <<fedVars, storeVars, fnVars, persist_log, calc_log, state, current_winner, current_green_time, sigVars, stop_event,
                 cms_override, result, dmVars, snapshot,
                 bridgeVars, shutdown_returned, forced>>

\* self._cms_override = None; current_winner, current_green_time = ...;
\* the locals result, next_winner and next_green, and frozen with them,
\* end with the iteration
LoopCommit ==
  /\ pc = "commit"
  /\ cms_override' = IF next_local.seen THEN NoOverride ELSE cms_override
  /\ forced' = IF next_local.seen THEN Min2(forced + 1, MaxDelivered + 1) ELSE forced
  /\ current_winner' = next_local.winner
  /\ current_green_time' = next_local.green_time
  /\ next_local' = NoLocal
  /\ result' = NoResult
  /\ restored' = IF next_local.seen THEN restored \ {next_local.winner} ELSE restored
  /\ calc_log' = IF calc_log.observed THEN FirstCalc ELSE calc_log
  /\ pc' = "check"
  /\ UNCHANGED elapsed
  /\ UNCHANGED <<fedVars, storeVars, fnVars, persist_log, state, sigVars, stop_event, dmVars, snapshot,
                 cms_connector, bpc, connected, active_overrides, todo,
                 delivered, hb_history, tick_log, shutdown_returned>>

LoopPcs == {"check", "green", "green_wait", "freeze", "freeze_wait", "yellow",
            "calc", "yellow_wait", "allred", "red_wait", "apply", "commit"}

\* except KeyboardInterrupt / Exception: self.shutdown()
LoopInterrupt ==
  /\ pc \in LoopPcs
  /\ pc' = "sd_stop"
  /\ elapsed' = 0
  /\ UNCHANGED <<fedVars, storeVars, fnVars, persist_log, calc_log, state, current_winner, current_green_time, sigVars, stop_event,
                 cms_override, result, next_local, dmVars, snapshot,
                 bridgeVars, shutdown_returned, forced>>

\* shutdown() on the cycle thread: self._stop_event.set(), stop the workers
LoopShutdownStop ==
  /\ pc = "sd_stop"
  /\ stop_event' = TRUE
  /\ pc' = "sd_red"
  /\ UNCHANGED elapsed
  /\ UNCHANGED <<fedVars, storeVars, fnVars, persist_log, calc_log, state, current_winner, current_green_time, sigVars,
                 cms_override, result, next_local, dmVars, snapshot,
                 bridgeVars, shutdown_returned, forced>>

\* shutdown() on the cycle thread: self.signal_interface.set_all_red()
LoopShutdownRed_leavesSignal ==
  /\ pc = "sd_red"
  /\ shutdown_returned' = TRUE
  /\ pc' = "exited"
  /\ UNCHANGED elapsed
  /\ UNCHANGED <<fedVars, storeVars, fnVars, persist_log, calc_log, state, current_winner, current_green_time, stop_event,
                 cms_override, result, next_local, dmVars, snapshot,
                 bridgeVars, forced, sigVars>>

LoopShutdownRed ==
  /\ pc = "sd_red"
  /\ set_all_red
  /\ shutdown_returned' = TRUE
  /\ pc' = "exited"
  /\ elapsed' = 0
  /\ UNCHANGED <<fedVars, storeVars, fnVars, persist_log, calc_log, state, current_winner, current_green_time, stop_event,
                 cms_override, result, next_local, dmVars, snapshot,
                 bridgeVars, forced>>

MainLoop ==
  \/ LoopCheck \/ LoopGreen \/ LoopGreenWait
  \/ (\E telemetry \in ScenIds : LoopFreeze(telemetry)) \/ LoopFreezeWait
  \/ LoopYellow \/ (\E took \in CalcDurations : LoopCalc(took)) \/ LoopYellowWait \/ LoopAllRed \/ LoopRedWait
  \/ LoopApply \/ LoopCommit \/ LoopShutdownStop \/ LoopShutdownRed


(***************************************************************************)
(* CMSConnector and MainController._background_loop                        *)
(***************************************************************************)
\* the severity branches with HIGH lowered to the value of the else branch
ThrottleValue_lowHigh(sat) == IF sat > 95 THEN 25 ELSE 10

\* server.py, "Severity-based throttle value"
ThrottleValue(sat) == IF sat > 95 THEN 25 ELSE IF sat > 80 THEN 15 ELSE 10

\* the saturations that get as far as the severity branches: the loop skips
\* a phase with sat <= 80
ThrottledSats == {sat \in 0..100 : ~(sat <= 80)}

\* every value the controller can put into a THROTTLE_ADJUST
IssuedValues == {ThrottleValue(sat) : sat \in ThrottledSats}

\* the severity of the THROTTLE_ADJUST a poll delivers for lane l: the
\* controller's value for a saturation of 90 or 97, which the edge node
\* passes through
SampleValue(l) == ThrottleValue(IF PhaseIdx(l) % 2 = 1 THEN 90 ELSE 97)

Cmds == {Throttle(l, SampleValue(l)) : l \in CmdLanes}
          \cup {Restore(l) : l \in CmdLanes}

RestoreAll == [i \in 1..4 |-> Restore(Phases[i])]

\* command lists a poll can return: no two commands name the same lane
PollResponses ==
  {RestoreAll} \cup
  UNION {{r \in [1..n -> Cmds] :
            \A i, j \in 1..n : i # j => r[i].target_lane # r[j].target_lane}
         : n \in 0..MaxCmds}

RECURSIVE CountThrottles(_)
CountThrottles(cmds) ==
  IF cmds = <<>> THEN 0
  ELSE (IF Head(cmds).command_type = "THROTTLE_ADJUST" THEN 1 ELSE 0)
       + CountThrottles(Tail(cmds))

HasLane(ov, l) == \E i \in 1..Len(ov) : ov[i].lane = l

\* self.active_overrides[target_lane] = cmd  (dict keeps the key's position)
PutOverride(ov, l, v) ==
  IF HasLane(ov, l)
  THEN [i \in 1..Len(ov) |-> IF ov[i].lane = l THEN [lane |-> l, value |-> v] ELSE ov[i]]
  ELSE Append(ov, [lane |-> l, value |-> v])

\* del self.active_overrides[target_lane]
DelOverride(ov, l) == SelectSeq(ov, LAMBDA e : e.lane # l)

\* the for loop over command_list in check_for_updates
RECURSIVE ApplyCommands(_, _)
ApplyCommands(ov, cmds) ==
  IF cmds = <<>> THEN ov
  ELSE LET c == Head(cmds)
           ov2 == IF c.command_type = "THROTTLE_ADJUST"
                  THEN PutOverride(ov, c.target_lane, c.value)
                  ELSE IF c.command_type = "RESTORE_NORMAL" /\ HasLane(ov, c.target_lane)
                       THEN DelOverride(ov, c.target_lane)
                  ELSE ov
       IN ApplyCommands(ov2, Tail(cmds))

\* the lanes a command list names with the given command type
LanesOf(cmds, command_type) ==
  {cmds[i].target_lane : i \in {k \in 1..Len(cmds) : cmds[k].command_type = command_type}}

\* send_data with "except RequestException" leaving self.connected alone
send_data_keepsConnected(conn, ov, hb) ==
  IF hb = "ok" THEN [connected |-> TRUE, active_overrides |-> <<>>]
  ELSE [connected |-> conn, active_overrides |-> ov]

\* send_data: hb is the outcome of the POST ("ok", "non200", "error");
\* returns the connector's fields after the call
send_data(conn, ov, hb) ==
  IF hb = "ok" THEN [connected |-> TRUE, active_overrides |-> <<>>]
  ELSE IF hb = "error" THEN [connected |-> FALSE, active_overrides |-> ov]
  ELSE [connected |-> conn, active_overrides |-> ov]

\* if not self.connected: return self.active_overrides  (no GET is made)
sends_poll(conn) == conn

\* check_for_updates: po is the outcome of the GET, cmds its command list
check_for_updates(conn, ov, po, cmds) ==
  IF ~sends_poll(conn) THEN ov
  ELSE IF po = "ok" THEN ApplyCommands(ov, cmds)
  ELSE ov

HbOutcomes == {"ok", "non200", "error"}
PollOutcomes == {"ok", "non200", "error"}

\* one pulse of _background_loop up to the for loop over the overrides
BridgeTick(hb, po, cmds) ==
  /\ bpc = "tick"
  /\ ~stop_event
  /\ cms_connector
  /\ LET s == send_data(connected, active_overrides, hb)
         sent == sends_poll(s.connected)
         polled == sent /\ po = "ok"
         ov == check_for_updates(s.connected, s.active_overrides, po, cmds)
     IN /\ (~polled => cmds = <<>>)
        /\ (~sent => po = "error")
        /\ delivered = 0 \/ delivered + CountThrottles(cmds) <= MaxDelivered
        /\ connected' = s.connected
        /\ active_overrides' = ov
        /\ todo' = ov
        /\ delivered' = delivered + CountThrottles(cmds)
        /\ hb_history' = IF hb = "ok" \/ hb_history = "ok" THEN "ok" ELSE "failed"
        /\ tick_log' = IF tick_log.observed
                       THEN [observed |-> TRUE, hb |-> hb, prev_hb |-> tick_log.hb,
                             was_connected |-> connected,
                             had_overrides |-> active_overrides # <<>>,
                             cleared |-> s.active_overrides = <<>>,
                             poll_sent |-> sent,
                             po |-> IF sent THEN po ELSE "not sent"]
                       ELSE tick_log
        /\ restored' = (restored \ LanesOf(cmds, "THROTTLE_ADJUST"))
                          \cup {l \in LanesOf(cmds, "RESTORE_NORMAL") :
                                  cms_override.lane = l}
        /\ bpc' = IF ov = <<>> THEN "tick" ELSE "store"
  /\ UNCHANGED elapsed
  /\ UNCHANGED <<fedVars, storeVars, fnVars, persist_log, calc_log, pc, state, current_winner, current_green_time, sigVars, stop_event,
                 cms_override, result, next_local, dmVars, snapshot,
                 cms_connector, shutdown_returned, forced>>

\* for lane, cmd in overrides.items(): self._cms_override = {...}
BridgeStore ==
  /\ bpc = "store"
  /\ todo # <<>>
  /\ cms_override' = Head(todo)
  /\ todo' = Tail(todo)
  /\ restored' = restored \cap {Head(todo).lane}
  /\ bpc' = IF Tail(todo) = <<>> THEN "tick" ELSE "store"
  /\ UNCHANGED elapsed
  /\ UNCHANGED <<fedVars, storeVars, fnVars, persist_log, calc_log, pc, state, current_winner, current_green_time, sigVars, stop_event,
                 result, next_local, dmVars, snapshot,
                 cms_connector, connected, active_overrides, delivered, hb_history, tick_log,
                 shutdown_returned, forced>>

\* while not self._stop_event.is_set(): ... leaves the loop
BridgeStop ==
  /\ bpc = "tick"
  /\ stop_event
  /\ bpc' = "stopped"
  /\ UNCHANGED elapsed
  /\ UNCHANGED <<fedVars, storeVars, fnVars, persist_log, calc_log, pc, state, current_winner, current_green_time, sigVars, stop_event,
                 cms_override, result, next_local, dmVars, snapshot,
                 cms_connector, connected, active_overrides, todo, delivered,
                 hb_history, tick_log, restored, shutdown_returned, forced>>

Bridge ==
  \/ \E hb \in HbOutcomes, po \in PollOutcomes, cmds \in PollResponses :
       BridgeTick(hb, po, cmds)
  \/ BridgeStore
  \/ BridgeStop

(***************************************************************************)
(* The visualizer's quit key                                               *)
(***************************************************************************)
\* TrafficVisualizer: key 'q' sets the shared stop event
VisualizerQuit ==
  /\ ~stop_event
  /\ stop_event' = TRUE
  /\ UNCHANGED elapsed
  /\ UNCHANGED <<fedVars, storeVars, fnVars, persist_log, calc_log, pc, state, current_winner, current_green_time, sigVars,
                 cms_override, result, next_local, dmVars, snapshot,
                 bridgeVars, shutdown_returned, forced>>

\* a vision thread calls shared_queue.update_phase(..., raw_detections=t)
\* between FREEZE and the calculation: the live store now holds other
\* detections than the snapshot (what the store holds at other times is
\* the telemetry LoopFreeze draws)
VisionWrite(t) ==
  /\ calc_log.observed
  /\ pc \in {"freeze_wait", "yellow", "calc"}
  /\ t # calc_log.live
  /\ calc_log' = [calc_log EXCEPT !.live = t]
  /\ UNCHANGED <<fedVars, storeVars, fnVars, persist_log, pc, state, current_winner, current_green_time, sigVars,
                 stop_event, cms_override, result, next_local, dmVars, snapshot,
                 bridgeVars, shutdown_returned, forced, elapsed>>

EdgeNext ==
  \/ MainLoop
  \/ LoopInterrupt
  \/ Bridge
  \/ VisualizerQuit


(***************************************************************************)
(* Properties of the edge node                                             *)
(***************************************************************************)
GreenActuation == pc = "green" /\ pc' = "green_wait"

\* C1: a GREEN actuation after the first one finds the signal RED_ALL with
\* a YELLOW and then a RED_ALL interval since the previous GREEN; the signal
\* never turns GREEN from anything but RED_ALL.
C1_ClearanceBetweenGreens ==
  /\ [][GreenActuation =>
          (current_signal = "RED_ALL" /\ (actuated => clearance = "yr"))]_vars
  /\ [][(current_signal' = "GREEN" /\ current_signal # "GREEN") =>
          current_signal = "RED_ALL"]_vars

C1_Witness ==
  /\ pc = "green" /\ actuated /\ clearance = "yr"
  /\ current_signal = "RED_ALL" /\ ~stop_event

\* C2: the loop starts in GREEN with winner North and the minimum green
\* time; each phase is entered from its predecessor in the order GREEN,
\* FREEZE, YELLOW, ACTUATION, GREEN, and while no shutdown is signalled
\* every phase is entered again and again.
C2_FirstCycle ==
  ~actuated => (state = "GREEN" /\ current_winner = "North"
                /\ current_green_time = GREEN_MIN /\ GREEN_MIN = 15)

C2_PhaseOrder ==
  /\ GreenActuation => (state = "ACTUATION" \/ ~actuated)
  /\ (pc = "freeze" /\ pc' = "freeze_wait") => (state = "GREEN" /\ state' = "FREEZE")
  /\ (pc = "yellow" /\ pc' = "calc") => (state = "FREEZE" /\ state' = "YELLOW")
  /\ (pc = "allred" /\ pc' = "red_wait") => (state = "YELLOW" /\ state' = "ACTUATION")
  /\ (state' # state) => (<<state, state'>> \in
        {<<"GREEN", "FREEZE">>, <<"FREEZE", "YELLOW">>,
         <<"YELLOW", "ACTUATION">>, <<"ACTUATION", "GREEN">>})

C4_OneCyclePerThrottle == forced <= delivered

\* C12 (as claimed): once a RESTORE_NORMAL for lane L has been polled, with
\* no THROTTLE_ADJUST for L polled after it, no ACTUATION is forced to L.
C12_NotForcedAfterRestore ==
  [][(pc = "apply" /\ pc' = "commit") =>
        ~(next_local'.seen /\ next_local'.winner \in restored)]_vars

\* C14: with a green time G of at least freeze_offset the snapshot is
\* captured G - freeze_offset seconds after the signal turned GREEN (12 s
\* for G = 15), the signal turns YELLOW G seconds after it turned GREEN, and
\* every GREEN after the first follows 2 seconds of RED_ALL.
C14_Step ==
  /\ (pc = "freeze" /\ pc' = "freeze_wait" /\ current_green_time >= FREEZE_OFFSET) =>
        /\ elapsed = current_green_time - FREEZE_OFFSET
        /\ current_green_time = 15 => elapsed = 12
  /\ (pc = "yellow" /\ pc' = "calc" /\ current_green_time >= FREEZE_OFFSET) =>
        (current_signal = "GREEN" /\ elapsed = current_green_time)
  /\ (GreenActuation /\ actuated) => (current_signal = "RED_ALL" /\ elapsed = 2)

C14_CycleTiming == [][C14_Step]_vars

C14_Witness ==
  /\ pc = "yellow" /\ ~stop_event /\ actuated /\ clearance = "none"
  /\ current_green_time > GREEN_MIN
  /\ elapsed = current_green_time

\* C15 (as claimed): the signal turns RED_ALL for the ACTUATION exactly
\* yellow_duration seconds after it turned YELLOW, however long the
\* calculation took.
C15_YellowLastsYellowDuration ==
  [][(pc = "allred" /\ pc' = "red_wait") =>
        (current_signal = "YELLOW" /\ elapsed = YELLOW_DURATION)]_vars

\* one poll's answer with a THROTTLE_ADJUST for each of two lanes
TwoLanePoll == <<Throttle("North", SampleValue("North")),
                 Throttle("South", SampleValue("South"))>>

\* C39: with every heartbeat answered 200 and one poll that delivers
\* THROTTLE_ADJUST for North and for South, an ACTUATION that is forced is
\* forced to the lane processed last (South), and no second ACTUATION is
\* forced.
C39_LastOverrideOnly ==
  /\ next_local.seen => next_local.winner = TwoLanePoll[Len(TwoLanePoll)].target_lane
  /\ forced <= 1

C37_Step ==
  (GreenActuation /\ prev_open_lanes # NoLanes) =>
     prev_open_lanes = _get_allowed_lanes(lane_combinations_loaded,
                                          current_winner, current_state)

\* C37: at every GREEN actuation after the first decision the open lanes
\* handed to actuate are the matrix entry (or the winner's All lane alone)
\* of the phase that actuate turns green, for the current congestion state.
C37_OpenLanesOfGreenPhase == [][C37_Step]_vars

\* C36: the green time of the current cycle, the green time of a computed
\* decision and the value of a pending override all lie in [15, 90]; every
\* value the controller's severity branches can issue is 15 or 25.
C36_GreenWithinBounds ==
  /\ G_MIN = 15 /\ G_MAX = 90 /\ GREEN_MIN = G_MIN /\ GREEN_MAX = G_MAX
  /\ current_green_time \in G_MIN..G_MAX
  /\ result # NoResult => result.green_time \in G_MIN..G_MAX
  /\ next_local # NoLocal => next_local.green_time \in G_MIN..G_MAX
  /\ cms_override # NoOverride => cms_override.value \in IssuedValues
  /\ \A i \in 1..Len(active_overrides) : active_overrides[i].value \in IssuedValues
  /\ IssuedValues = {15, 25}

\* a cycle runs on the green time a throttle forced, shorter than the one
\* computed for the cycle before it
C36_Witness ==
  /\ pc = "calc" /\ forced > 0 /\ ~stop_event
  /\ current_green_time = SampleValue(current_winner)
  /\ cms_override # NoOverride

\* the program points at which the local 'result' holds this cycle's decision
ResultPcs == {"yellow_wait", "allred", "red_wait", "apply", "commit"}

\* C33: while a computed decision waits to be applied, it is the decision
\* that decide_signals gives for the raw detections of the snapshot captured
\* at this cycle's FREEZE, whatever the vision threads have written since;
\* the congestion state and open-lane set the computation read are the ones
\* the snapshot recorded; without an override, ACTUATION applies exactly it.
C33_DecisionFromFrozen ==
  (calc_log.observed /\ pc \in ResultPcs) =>
    /\ calc_log.used.fresh
    /\ calc_log.frozen.raw_detections \in ScenIds
    /\ calc_log.used.state = calc_log.frozen.congestion_state
    /\ calc_log.used.open = calc_log.frozen.opened_lanes
    /\ \E r \in {CalcTable(calc_log.frozen.raw_detections,
                            calc_log.frozen.congestion_state,
                            calc_log.frozen.opened_lanes)} :
          /\ result = [winner |-> r.winner, green_time |-> r.green_time]
          /\ current_state = r.state
          /\ prev_open_lanes = r.open
    /\ (pc = "commit" /\ ~next_local.seen) =>
          /\ next_local.winner = result.winner
          /\ next_local.green_time = result.green_time

\* the live store changed after FREEZE to detections that would have given
\* another decision, and the frozen one is about to be applied
C33_Witness ==
  /\ calc_log.observed /\ pc = "commit" /\ ~next_local.seen /\ ~stop_event
  /\ calc_log.used.moved

\* the program points of the cycle thread where it checks the stop event:
\* the while condition and the three "if self._stop_event.is_set(): break"
CheckPcs == {"check", "green_wait", "freeze_wait", "yellow_wait"}
\* the program points that end with _interruptible_sleep
WaitPcs == {"green_wait", "freeze_wait", "yellow_wait", "red_wait"}

C32_Step ==
  stop_event =>
    /\ (pc \in CheckPcs /\ pc' # pc) => pc' \in {"exited", "sd_stop"}
    /\ pc' \in {"green", "freeze", "yellow", "allred"} => pc' = pc
    /\ pc \in WaitPcs => elapsed' <= elapsed
    /\ (bpc = "tick" /\ bpc' # bpc) => bpc' = "stopped"
    /\ (bpc = "tick" /\ bpc' = bpc) =>
          UNCHANGED <<connected, active_overrides, delivered, tick_log>>

\* C32: once the stop event is set, a timed wait of the cycle thread adds
\* no waiting time, the thread leaves the loop at the next point where it
\* checks the event and passes no check into a further GREEN, FREEZE, YELLOW
\* or ACTUATION phase, the bridge thread starts no further pulse, and both
\* threads eventually stop.
C32_ShutdownTerminates ==
  /\ [][C32_Step]_vars
  /\ stop_event ~> (pc = "exited")
  /\ stop_event ~> (bpc = "stopped")

\* the stop event arrived during the wait after FREEZE: the loop is left in
\* that phase, YELLOW never began, and the bridge thread has stopped
C32_Witness ==
  /\ stop_event /\ pc = "exited" /\ bpc = "stopped"
  /\ state = "FREEZE" /\ ~shutdown_returned /\ actuated

\* C10: while every heartbeat has failed there is no override and the
\* cycle commits the locally computed winner and green time; no step of
\* the running loop is disabled, whatever the bridge is doing; GREEN is
\* entered and left again and again until a stop is signalled.
C10_LocalWhenAllFail ==
  /\ hb_history # "ok" => (cms_override = NoOverride /\ active_overrides = <<>>)
  /\ pc \in LoopPcs => ENABLED MainLoop

C10_LocalCommit ==
  (pc = "commit" /\ pc' = "check" /\ hb_history # "ok") =>
     /\ result # NoResult
     /\ current_winner' = result.winner
     /\ current_green_time' = result.green_time

C10_CycleIndependent ==
  /\ []C10_LocalWhenAllFail
  /\ [][C10_LocalCommit]_vars
  /\ []<>(stop_event \/ (state = "GREEN" /\ pc = "green_wait"))
  /\ []<>(stop_event \/ state # "GREEN")

C10_Witness ==
  /\ hb_history = "failed" /\ ~connected
  /\ pc = "check" /\ state = "ACTUATION"
  /\ cms_override = NoOverride /\ forced = 0
  /\ ~stop_event


(***************************************************************************)
(* The scoring functions called on their own: classify_state and           *)
(* HybridCore.process_hybrid_data                                          *)
(***************************************************************************)
NotCalled == "not called"

NoDecision == [called |-> FALSE]

\* average saturations in percent: (grid_val - 1) / 4 runs from -25% (all
\* phases blocked, grid_val 0.0) to 100%
SaturationInputs == (0 - 25)..100

\* raw near-zone totals (sums of vehicle weights; 24 is the total of the
\* module's own test block) and the open-lane lists a call can be given
LeftSamples == {0, 24, 35}

StraightSamples == {0, 50}

OpenLaneSamples(p) ==
  {NoLanes,
   <<LaneId(p, "Left")>>,
   <<LaneId(p, "All")>>,
   <<LaneId(p, "Straight"), LaneId(p, "Left")>>,
   <<LaneId(IF p = "North" THEN "South" ELSE "North", "Left")>>}

HybridInputs ==
  {[phase |-> p,
    veh |-> [grid100 |-> 100, straight |-> st, left |-> l],
    congestion_state |-> cs,
    opened_lanes |-> ol] :
     p \in {"North", "West"}, st \in StraightSamples, l \in LeftSamples,
     cs \in CongestionStates, ol \in OpenLaneSamples("North") \cup OpenLaneSamples("West")}

(***************************************************************************)
(* GridCore (core_logic/grid_core.py): the far-zone grade of one lane.     *)
(* Grade values are kept times 100, fill percentages as whole percents.    *)
(***************************************************************************)
MaxCells == 3

FillSamples == {0, 19, 20, 40, 59, 60, 80, 100}

LaneEvents == {"NORMAL", "ACCIDENT", "STALLED", "GRIDLOCK", "BLIND"}

\* the fill percentages of the cells loaded for the lane, row by row
CellFillInputs == UNION {[1..n -> FillSamples] : n \in 0..MaxCells}

\* _percent_to_value with the bands open at their lower ends
_percent_to_value_exclusive(percent) ==
  IF percent > 80 THEN 500
  ELSE IF percent > 60 THEN 400
  ELSE IF percent > 40 THEN 300
  ELSE IF percent > 20 THEN 200
  ELSE 100

_percent_to_value(percent) ==
  IF percent >= 80 THEN 500
  ELSE IF percent >= 60 THEN 400
  ELSE IF percent >= 40 THEN 300
  ELSE IF percent >= 20 THEN 200
  ELSE 100

\* total_grade_value and cell_count after the loops; (100, 1) stands for
\* the early returns of 1.0
_calculate_segment_metrics(fills) ==
  IF fills = <<>> THEN [total_grade_value |-> 100, cell_count |-> 1]
  ELSE [total_grade_value |-> SumSeq([i \in 1..Len(fills) |-> _percent_to_value(fills[i])]),
        cell_count |-> Len(fills)]

\* round(total / count, 2) times 100, for counts that give no tie
Round2(total, count) == (2 * total + count) \div (2 * count)

\* the lane's "val"
get_grid_system_status(status, fills) ==
  IF status = "ACCIDENT" THEN 0
  ELSE IF status = "GRIDLOCK" THEN 500
  ELSE IF status = "BLIND" THEN 200
  ELSE LET m == _calculate_segment_metrics(fills)
           grade_val == Round2(m.total_grade_value, m.cell_count)
       IN IF status = "STALLED" THEN Max2(grade_val, 300) ELSE grade_val

GridIdle ==
  /\ grid_in = [status |-> "NORMAL", fills |-> <<>>]
  /\ grid_out = NoDecision

GridInputs ==
  /\ grid_in \in [status : LaneEvents, fills : CellFillInputs]
  /\ grid_out = NoDecision

\* grid_core.get_grid_system_status(grid_input)[lane]["val"]
GridCall ==
  /\ grid_out = NoDecision
  /\ grid_out' = [called |-> TRUE,
                  val |-> get_grid_system_status(grid_in.status, grid_in.fills)]
  /\ UNCHANGED <<combo_file, dm_constructed, lane_combinations_loaded, decision,
                 saturation, classified, hybrid_in, hybrid_out, grid_in,
                 serverCallVars, poolVars, edgeVars, fedVars, storeVars>>

\* the band of a fill percentage, as the specification lists them
Band(percent) ==
  IF percent >= 80 THEN 500 ELSE IF percent >= 60 THEN 400
  ELSE IF percent >= 40 THEN 300 ELSE IF percent >= 20 THEN 200 ELSE 100

NoRace == [pc |-> "off"]

(***************************************************************************)
(* ProfileManager: the pool of demo profiles and the callers that take     *)
(* profiles from it and give them back                                     *)
(***************************************************************************)
NumProfiles == 2
NumCallers == 2

\* range(len(self.profiles))
ProfileIndices == 0..(NumProfiles - 1)
Callers == 1..NumCallers

NoCall == [op |-> "none"]

\* ProfileManager.__init__ / _load_profiles: every index available
PoolInit ==
  /\ available_indices = ProfileIndices
  /\ used_indices = {}
  /\ track_map = [c \in Callers |-> {}]
  /\ handles = [c \in Callers |-> {}]
  /\ pool_last = NoCall

poolRest == <<edgeVars, fedVars, storeVars, combo_file, dm_constructed,
              lane_combinations_loaded, decision, saturation, classified,
              hybrid_in, hybrid_out, grid_in, grid_out, serverCallVars>>

\* get_profile by caller c, whole body under self.lock; idx is what
\* random.choice(list(self.available_indices)) picked
get_profile(c) ==
  /\ IF available_indices = {}
     THEN /\ pool_last' = [op |-> "get", caller |-> c, found |-> FALSE, idx |-> 0]
          /\ UNCHANGED <<available_indices, used_indices, track_map, handles>>
     ELSE \E idx \in available_indices :
            /\ available_indices' = available_indices \ {idx}
            /\ used_indices' = used_indices \cup {idx}
            /\ track_map' = [track_map EXCEPT ![c] = @ \cup {idx}]
            /\ handles' = [handles EXCEPT ![c] = @ \cup {idx}]
            /\ pool_last' = [op |-> "get", caller |-> c, found |-> TRUE, idx |-> idx]
  /\ UNCHANGED poolRest

\* release_profile(profile) by caller c, profile being a dict the caller
\* received from get_profile at some time, with profile["_index"] = idx
release_profile(c, idx) ==
  /\ idx \in handles[c]
  /\ IF idx \in used_indices
     THEN /\ used_indices' = used_indices \ {idx}
          /\ available_indices' = available_indices \cup {idx}
     ELSE UNCHANGED <<available_indices, used_indices>>
  /\ track_map' = [track_map EXCEPT ![c] = @ \ {idx}]
  /\ pool_last' = [op |-> "release", caller |-> c, found |-> TRUE, idx |-> idx]
  /\ UNCHANGED <<handles, poolRest>>

\* release_profile(None) / a dict without "_index": returns at once
release_profile_none(c) ==
  /\ pool_last' = [op |-> "release", caller |-> c, found |-> FALSE, idx |-> 0]
  /\ UNCHANGED <<available_indices, used_indices, track_map, handles, poolRest>>

PoolNext ==
  \/ \E c \in Callers : get_profile(c)
  \/ \E c \in Callers : \E idx \in ProfileIndices : release_profile(c, idx)
  \/ \E c \in Callers : release_profile_none(c)

\* C31: available_indices and used_indices are disjoint and together hold
\* every profile index, no index is held by two callers at once, and a
\* get_profile that returned None found nothing available.
C31_ExclusiveCheckout ==
  /\ available_indices \cap used_indices = {}
  /\ available_indices \cup used_indices = ProfileIndices
  /\ \A c1, c2 \in Callers : c1 # c2 => track_map[c1] \cap track_map[c2] = {}
  /\ (pool_last.op = "get" /\ ~pool_last.found) => available_indices = {}

ServerCallsIdle ==
  /\ throttle_call = [called |-> FALSE, connections |-> <<>>,
                      phase_saturations |-> [p \in PhaseSet |-> 0]]
  /\ race = NoRace
  /\ PoolInit

FnCallsIdle ==
  /\ ServerCallsIdle
  /\ decision = NoDecision
  /\ saturation = 0
  /\ classified = NotCalled
  /\ hybrid_in = CHOOSE h \in HybridInputs : TRUE
  /\ hybrid_out = NoDecision
  /\ GridIdle

\* the decision maker was constructed with the lane matrix file in place
MatrixLoaded ==
  /\ combo_file = "matrix"
  /\ dm_constructed = TRUE
  /\ lane_combinations_loaded = lane_combinations

FnIdle == MatrixLoaded /\ FnCallsIdle

FnInputs ==
  /\ MatrixLoaded
  /\ ServerCallsIdle
  /\ decision = NoDecision
  /\ saturation \in SaturationInputs
  /\ classified = NotCalled
  /\ hybrid_in \in HybridInputs
  /\ hybrid_out = NoDecision
  /\ GridIdle

edgeFedStore == <<edgeVars, fedVars, storeVars>>

\* classify_state(saturation)
ClassifyCall ==
  /\ classified = NotCalled
  /\ classified' = classify_state(saturation, 100)
  /\ UNCHANGED <<combo_file, dm_constructed, lane_combinations_loaded, decision,
                 saturation, hybrid_in, hybrid_out, grid_in, grid_out,
                 serverCallVars, poolVars, edgeFedStore>>

\* core.process_hybrid_data(vehicles, congestion_state, prev_open_lanes)
HybridCall ==
  /\ hybrid_out = NoDecision
  /\ hybrid_out' = process_hybrid_data(hybrid_in.phase, hybrid_in.veh,
                                       hybrid_in.congestion_state, hybrid_in.opened_lanes)
  /\ UNCHANGED <<combo_file, dm_constructed, lane_combinations_loaded, decision,
                 saturation, classified, hybrid_in, grid_in, grid_out,
                 serverCallVars, poolVars, edgeFedStore>>

FnNext == ClassifyCall \/ HybridCall

C19_MercyDiscount ==
  (hybrid_out # NoDecision) =>
     LET discounted ==
           /\ InSeq(LaneId(hybrid_in.phase, "Left"), hybrid_in.opened_lanes)
           /\ hybrid_in.congestion_state \in {"SAFE", "LESS_CONGESTION"}
     IN /\ discounted => 2 * hybrid_out.priority_left2 = 2 * hybrid_in.veh.left
        /\ ~discounted => hybrid_out.priority_left2 = 2 * hybrid_in.veh.left
        /\ (hybrid_in.veh.left > 0 /\ hybrid_out.priority_left2 = hybrid_in.veh.left)
              => discounted
        /\ hybrid_out.priority_straight = hybrid_in.veh.straight
        /\ (hybrid_in.veh.left = 24 /\ discounted) => hybrid_out.priority_left2 = 2 * 12

C19_Witness ==
  /\ hybrid_out # NoDecision
  /\ hybrid_in.veh.left = 24 /\ hybrid_in.veh.straight = 50
  /\ hybrid_in.congestion_state = "MORE_LESSER_CONGESTION"
  /\ InSeq(LaneId(hybrid_in.phase, "Left"), hybrid_in.opened_lanes)
  /\ hybrid_out.priority_left2 = 48


(***************************************************************************)
(* The decision on its own: MainController._calculate_next_phase calling   *)
(* DecisionMaker.decide_signals, cycle after cycle, on any detections      *)
(***************************************************************************)
\* what one phase's hybrid core can measure: far-zone grade times 100 and
\* the raw near-zone totals (sums of vehicle weights).  4.2 / 300 / 24 is
\* the packet whose composite score is 744; a grade of 0.0 is a blocked lane.
PacketSamples ==
  {[grid100 |-> 100, straight |-> 0, left |-> 0],
   [grid100 |-> 117, straight |-> 0, left |-> 0],
   [grid100 |-> 100, straight |-> 0, left |-> 35],
   [grid100 |-> 420, straight |-> 300, left |-> 24],
   [grid100 |-> 0, straight |-> 0, left |-> 0]}

\* fewer samples for the last two phases: blocked, free, and for East the
\* heavy packet
EastSamples == {pk \in PacketSamples : pk.left # 35 /\ pk.grid100 # 117}

WestSamples == {pk \in EastSamples : pk.grid100 <= 100}

VehicleDataInputs ==
  {[North |-> n, South |-> so, East |-> e, West |-> w] :
     n \in PacketSamples, so \in PacketSamples, e \in EastSamples, w \in WestSamples}

\* result = self._calculate_next_phase(frozen)
DecideCall(vehicle_data) ==
  /\ dm_constructed
  /\ \E r \in {_calculate_next_phase([raw_detections |-> vehicle_data], current_state,
                                  prev_open_lanes, lane_combinations_loaded)} :
     /\ current_state' = r.decided.system_state
     /\ prev_open_lanes' = r.decided.prev_open_lanes
     /\ decision' = [called |-> TRUE,
                     priority_scores |-> r.decided.priority_scores,
                     allocated_times |-> r.decided.allocated_times,
                     system_state |-> r.decided.system_state,
                     details |-> r.decided.details,
                     winner |-> r.winner,
                     green_time |-> r.green_time,
                     \* what the call was given and left behind
                     raw_left |-> [p \in PhaseSet |-> vehicle_data[p].left],
                     open_lanes |-> r.decided.prev_open_lanes,
                     first |-> ~decision.called]
     /\ UNCHANGED <<fedVars, storeVars, combo_file, dm_constructed,
                    lane_combinations_loaded, saturation, classified,
                    hybrid_in, hybrid_out, grid_in, grid_out, serverCallVars,
                    poolVars,
                    persist_log, calc_log, pc, state, current_winner, current_green_time, sigVars, stop_event,
                    cms_override, result, next_local, snapshot, bridgeVars,
                    shutdown_returned, forced, elapsed>>

DecideNext == \E vehicle_data \in VehicleDataInputs : DecideCall(vehicle_data)

\* composite score of phase p in the last decision, in halves:
\* grid_value * 100 + priority_straight + priority_left
Composite2(p) ==
  2 * decision.details[p].grid100 + 2 * decision.details[p].priority_straight
  + decision.details[p].priority_left2

C18_GreenTimeShares ==
  decision.called =>
     LET scores == decision.priority_scores
         total == scores["North"] + scores["South"] + scores["East"] + scores["West"]
     IN /\ total = 0 => \A p \in PhaseSet : decision.allocated_times[p] = G_MIN
        /\ total # 0 =>
              \A p \in PhaseSet :
                 decision.allocated_times[p]
                    = G_MIN + (scores[p] * (G_MAX - G_MIN)) \div total
        /\ (scores["North"] = 744 /\ scores["South"] = 100 /\ total = 844)
              => (decision.allocated_times["North"] = 81
                  /\ decision.allocated_times["South"] = 23)

\* the congestion state the last decision computed from its own grid values
NewState ==
  classify_state(SumSeq(<<decision.details["North"].grid100 - 100,
                          decision.details["South"].grid100 - 100,
                          decision.details["East"].grid100 - 100,
                          decision.details["West"].grid100 - 100>>), 400 * 4)

\* the state and the open lanes the decision before the last step left: the
\* constructor's values before the first decision
StateBefore == IF decision.called THEN decision.system_state ELSE "SAFE"
OpenBefore == IF decision.called THEN decision.open_lanes ELSE NoLanes

C35_Step ==
  decision' # decision =>
    /\ \A p \in PhaseSet :
          decision'.details[p].priority_left2 =
            IF /\ InSeq(LaneId(p, "Left"), OpenBefore)
               /\ StateBefore \in {"SAFE", "LESS_CONGESTION"}
            THEN decision'.raw_left[p] ELSE 2 * decision'.raw_left[p]
    /\ decision'.system_state =
          classify_state(SumSeq([i \in 1..4 |->
                                   decision'.details[Phases[i]].grid100 - 100]),
                         400 * 4)
    /\ current_state' = decision'.system_state
    /\ prev_open_lanes' = decision'.open_lanes

\* C35: every decision discounts the left priorities by the congestion
\* state and the open lanes that the decision before it produced (SAFE and
\* no lanes before the first one); the state it computes from its own grid
\* values, classify(mean of (grid - 1) / 4), is stored for the next decision
\* and has no part in its own discount.
C35_DiscountFromPreviousCycle == [][C35_Step]_vars

\* a later decision halved North's left priority because the decision
\* before it had left SAFE and North_Left open, while the state it computed
\* itself grants no discount
C35_Witness ==
  /\ decision.called /\ ~decision.first
  /\ decision.system_state = "MORE_LESSER_CONGESTION"
  /\ decision.raw_left["North"] > 0
  /\ decision.details["North"].priority_left2 = decision.raw_left["North"]

\* C20: after a decision the recorded open lanes are the matrix entry for
\* the winner and the congestion state that decision computed, and are
\* the winner's All lane alone when the matrix is empty, has no entry for
\* the winner, or has none for that state under the winner.
C20_OpenLanesFromMatrix ==
  decision.called =>
     LET matrix == lane_combinations_loaded
         winner == decision.winner
         has_entry == /\ DOMAIN matrix # {}
                      /\ winner \in DOMAIN matrix
                      /\ NewState \in DOMAIN matrix[winner]
     IN /\ current_state = NewState
        /\ decision.system_state = NewState
        /\ has_entry => prev_open_lanes = matrix[winner][NewState]
        /\ ~has_entry => prev_open_lanes = <<LaneId(winner, "All")>>

\* the matrix lists the winner but not the state just computed
C20_Witness ==
  /\ decision.called
  /\ lane_combinations_loaded # NoCombinations
  /\ decision.winner \in DOMAIN lane_combinations_loaded
  /\ NewState \notin DOMAIN lane_combinations_loaded[decision.winner]
  /\ prev_open_lanes = <<LaneId(decision.winner, "All")>>

\* C21: with the lane matrix file missing, empty or malformed the decision
\* maker is constructed, and every decision records the winner's All lane
\* alone as open.
C21_LoadNeverFails ==
  (combo_file \in {"missing", "empty", "malformed"}) =>
     /\ dm_constructed
     /\ decision.called => prev_open_lanes = <<LaneId(decision.winner, "All")>>


(***************************************************************************)
(* Federation controller (cms_layer/server.py)                             *)
(***************************************************************************)
MaxTasks == 1

\* the part of TOPOLOGY_NODES / NETWORK_CONNECTIONS that is modelled
JUNCTIONS == {"PUNE_JW_27", "PUNE_JW_28", "PUNE_JW_29"}

NETWORK_CONNECTIONS ==
  [j \in {"PUNE_JW_28", "PUNE_JW_29"} |->
     IF j = "PUNE_JW_28" THEN [p \in {"North"} |-> "PUNE_JW_27"]
     ELSE [p \in {"North"} |-> "PUNE_JW_28"]]

EXTERNAL_LINKS == {"PUNE_JW_27"}

\* saturation maps (whole percents) the modelled heartbeats carry
SatMap(n, o) == [p \in PhaseSet |-> IF p = "North" THEN n ELSE o]

HeartbeatInputs(j) ==
  IF j = "PUNE_JW_29"
  THEN {SatMap(92, 0), SatMap(97, 100), SatMap(95, 40), SatMap(80, 40), SatMap(80, 0)}
  ELSE IF j = "PUNE_JW_28" THEN {SatMap(92, 40), SatMap(80, 0)}
  ELSE {SatMap(92, 40)}

InjectValues == {50, 97}

\* round(x, 1) of n/d tenths: round half to even
RoundHalfEven(n, d) ==
  LET q == n \div d
      r == n % d
  IN IF 2 * r < d THEN q
     ELSE IF 2 * r > d THEN q + 1
     ELSE IF q % 2 = 0 THEN q ELSE q + 1

\* junction_avg_sat in tenths of a percent
JunctionAvg(sats) ==
  RoundHalfEven(10 * SumSeq([i \in 1..4 |-> sats[Phases[i]]]), 4)

NoEntry == -1

\* fed_last when the last request was not a command poll
NoPoll == [op |-> "none", junction |-> "none", ret |-> <<>>]

\* inject_log while injections are not observed; the specification of the
\* injection endpoint switches the observation on
NoInjectLog == [observed |-> FALSE]
FirstInjectLog == [observed |-> TRUE, flip |-> FALSE, junction |-> "none",
                   value |-> 0, jammed |-> {}, cleared |-> FALSE]

FedInitFields ==
  /\ active_interventions = {}
  /\ pending_commands = [j \in JUNCTIONS |-> <<>>]
  /\ latest_score_cache = [j \in JUNCTIONS |-> NoEntry]
  /\ background_tasks = <<>>
  /\ db_up = TRUE
  /\ fed_last = NoPoll

FedInit ==
  /\ inject_log = NoInjectLog
  /\ FedInitFields

HasCommand(queue, cmd) == \E i \in 1..Len(queue) : queue[i] = cmd

\* INSERT INTO active_interventions ... ON CONFLICT (source_id) DO NOTHING
InsertIntervention_noConflict(rows, src, tgt, reason) ==
  rows \cup {[source_id |-> src, target_id |-> tgt, reason |-> reason]}

InsertIntervention(rows, src, tgt, reason) ==
  IF \E r \in rows : r.source_id = src THEN rows
  ELSE rows \cup {[source_id |-> src, target_id |-> tgt, reason |-> reason]}

\* the append of lines 801-807 without the check of existing_phases
EnqueueThrottle_noDedup(queue, phase_name, throttle_value) ==
  Append(queue, Throttle(phase_name, throttle_value))

\* the queue of upstream_id after the dedup-and-append of lines 795-807
\* the duplicate test looking at the THROTTLE_ADJUST commands only
EnqueueThrottle_amongThrottles(queue, phase_name, throttle_value) ==
  IF \E i \in 1..Len(queue) : /\ queue[i].target_lane = phase_name
                               /\ queue[i].command_type = "THROTTLE_ADJUST"
  THEN queue
  ELSE Append(queue, Throttle(phase_name, throttle_value))

EnqueueThrottle(queue, phase_name, throttle_value) ==
  IF \E i \in 1..Len(queue) : queue[i].target_lane = phase_name THEN queue
  ELSE Append(queue, Throttle(phase_name, throttle_value))

\* the for loop of _trigger_advanced_throttling from phase number i on, with
\* a phase without a feeder counted as a throttle
RECURSIVE ThrottleLoopIn_countsAll(_, _, _, _, _, _)
ThrottleLoopIn_countsAll(connections, node, sats, i, throttled_count, db) ==
  IF i > 4 THEN db
  ELSE LET phase_name == Phases[i]
           sat == sats[phase_name]
       IN IF sat <= 80 \/ throttled_count >= 3
          THEN ThrottleLoopIn_countsAll(connections, node, sats, i + 1, throttled_count, db)
          ELSE IF phase_name \notin DOMAIN connections
          THEN ThrottleLoopIn_countsAll(connections, node, sats, i + 1,
                                        throttled_count + 1, db)
          ELSE LET upstream_id == connections[phase_name]
                   rows2 == InsertIntervention(db.rows, upstream_id, node,
                                               [phase |-> phase_name, sat |-> sat])
                   pend2 == [db.pending EXCEPT ![upstream_id] =
                               EnqueueThrottle(@, phase_name, ThrottleValue(sat))]
               IN ThrottleLoopIn_countsAll(connections, node, sats, i + 1,
                                           throttled_count + 1,
                                           [rows |-> rows2, pending |-> pend2])

\* the for loop of _trigger_advanced_throttling from phase number i on;
\* connections is NETWORK_CONNECTIONS.get(congested_node_id, {}); db is the
\* pair of the interventions table and pending_commands
RECURSIVE ThrottleLoopIn(_, _, _, _, _, _)
ThrottleLoopIn(connections, node, sats, i, throttled_count, db) ==
  IF i > 4 THEN db
  ELSE LET phase_name == Phases[i]
           sat == sats[phase_name]
       IN IF sat <= 80 \/ throttled_count >= 3
          THEN ThrottleLoopIn(connections, node, sats, i + 1, throttled_count, db)
          ELSE IF phase_name \notin DOMAIN connections
          THEN ThrottleLoopIn(connections, node, sats, i + 1, throttled_count, db)
          ELSE LET upstream_id == connections[phase_name]
                   rows2 == InsertIntervention(db.rows, upstream_id, node,
                                               [phase |-> phase_name, sat |-> sat])
                   pend2 == [db.pending EXCEPT ![upstream_id] =
                               EnqueueThrottle(@, phase_name, ThrottleValue(sat))]
               IN ThrottleLoopIn(connections, node, sats, i + 1, throttled_count + 1,
                                 [rows |-> rows2, pending |-> pend2])

ThrottleLoop(node, sats, i, throttled_count, db) ==
  ThrottleLoopIn(IF node \in DOMAIN NETWORK_CONNECTIONS
                 THEN NETWORK_CONNECTIONS[node] ELSE <<>>,
                 node, sats, i, throttled_count, db)

_trigger_advanced_throttling(congested_node_id, phase_saturations, db) ==
  ThrottleLoop(congested_node_id, phase_saturations, 1, 0, db)

\* _trigger_recovery extending the queue instead of replacing it
_trigger_recovery_appends(source_id, db) ==
  [rows |-> {r \in db.rows : r.source_id # source_id},
   pending |-> [db.pending EXCEPT ![source_id] = @ \o RestoreAll]]

_trigger_recovery(source_id, db) ==
  [rows |-> {r \in db.rows : r.source_id # source_id},
   pending |-> [db.pending EXCEPT ![source_id] = RestoreAll]]

\* _trigger_recovery for every row the SELECT returned
RECURSIVE RecoverAll(_, _)
RecoverAll(sources, db) ==
  IF sources = {} THEN db
  ELSE LET s == CHOOSE x \in sources : TRUE
       IN RecoverAll(sources \ {s}, _trigger_recovery(s, db))

\* persist_heartbeat_to_db with a connection: congestion check, then recovery
SlowPath_releasesAtFifty(junction_id, phase_saturations, junction_avg_sat, db) ==
  LET any_congested == \E p \in PhaseSet : phase_saturations[p] > 80
      db1 == IF any_congested /\ junction_id \notin EXTERNAL_LINKS
             THEN _trigger_advanced_throttling(junction_id, phase_saturations, db)
             ELSE db
      active_sources == {r.source_id : r \in {x \in db1.rows : x.target_id = junction_id}}
  IN IF active_sources # {} /\ junction_avg_sat <= 500
     THEN RecoverAll(active_sources, db1)
     ELSE db1

SlowPath(junction_id, phase_saturations, junction_avg_sat, db) ==
  LET any_congested == \E p \in PhaseSet : phase_saturations[p] > 80
      db1 == IF any_congested /\ junction_id \notin EXTERNAL_LINKS
             THEN _trigger_advanced_throttling(junction_id, phase_saturations, db)
             ELSE db
      active_sources == {r.source_id : r \in {x \in db1.rows : x.target_id = junction_id}}
  IN IF active_sources # {} /\ junction_avg_sat < 500
     THEN RecoverAll(active_sources, db1)
     ELSE db1

edgeAndStore == <<edgeVars, storeVars, fnVars>>
fedRest == <<edgeAndStore, inject_log>>

\* the junctions whose feeder of the North lane is u
FedBy(u) ==
  {j \in DOMAIN NETWORK_CONNECTIONS :
     "North" \in DOMAIN NETWORK_CONNECTIONS[j] /\ NETWORK_CONNECTIONS[j]["North"] = u}

\* fed_last after receive_heartbeat has returned {"status": "ACK", ...}
Ack(j) == [op |-> "ack", junction |-> j, ret |-> <<>>]

\* POST /heartbeat: receive_heartbeat (the fast path and its ACK)
ReceiveHeartbeat_persistsFirst(j, sats) ==
  /\ Len(background_tasks) < MaxTasks
  /\ LET avg == JunctionAvg(sats)
         db == [rows |-> active_interventions, pending |-> pending_commands]
         out == IF db_up THEN SlowPath(j, sats, avg, db) ELSE db
     IN /\ latest_score_cache' = [latest_score_cache EXCEPT ![j] = avg]
        /\ active_interventions' = out.rows
        /\ pending_commands' = out.pending
        /\ background_tasks' = Append(background_tasks,
              [junction_id |-> j, phase_saturations |-> sats, junction_avg_sat |-> avg])
  /\ fed_last' = Ack(j)
  /\ UNCHANGED <<db_up, fedRest>>

ReceiveHeartbeat(j, sats) ==
  /\ Len(background_tasks) < MaxTasks
  /\ LET avg == JunctionAvg(sats)
     IN /\ latest_score_cache' = [latest_score_cache EXCEPT ![j] = avg]
        /\ background_tasks' = Append(background_tasks,
              [junction_id |-> j, phase_saturations |-> sats, junction_avg_sat |-> avg])
  /\ fed_last' = Ack(j)
  /\ UNCHANGED <<active_interventions, pending_commands, db_up, fedRest>>

\* persist_heartbeat_to_db without the return on a missing connection
PersistHeartbeat_ignoresDbDown ==
  /\ background_tasks # <<>>
  /\ LET t == Head(background_tasks)
         db == [rows |-> active_interventions, pending |-> pending_commands]
         out == SlowPath(t.junction_id, t.phase_saturations, t.junction_avg_sat, db)
     IN /\ active_interventions' = out.rows
        /\ pending_commands' = out.pending
        /\ fed_last' = NoPoll
  /\ background_tasks' = Tail(background_tasks)
  /\ UNCHANGED <<latest_score_cache, db_up, fedRest>>

\* the background task persist_heartbeat_to_db
PersistHeartbeat ==
  /\ background_tasks # <<>>
  /\ LET t == Head(background_tasks)
         db == [rows |-> active_interventions, pending |-> pending_commands]
         out == IF db_up
                THEN SlowPath(t.junction_id, t.phase_saturations, t.junction_avg_sat, db)
                ELSE db
     IN /\ active_interventions' = out.rows
        /\ pending_commands' = out.pending
        /\ fed_last' = NoPoll
  /\ background_tasks' = Tail(background_tasks)
  /\ UNCHANGED <<latest_score_cache, db_up, fedRest>>

\* GET /commands/{node_id}: cmds = pending_commands.pop(node_id, [])
get_commands_keepsQueue(pending, node_id) ==
  [ret |-> pending[node_id], pending |-> pending]

get_commands(pending, node_id) ==
  [ret |-> pending[node_id], pending |-> [pending EXCEPT ![node_id] = <<>>]]

GetCommands(j) ==
  /\ LET out == get_commands(pending_commands, j)
     IN /\ pending_commands' = out.pending
        /\ fed_last' = [op |-> "poll", junction |-> j, ret |-> out.ret]
  /\ inject_log' = IF inject_log.observed
                   THEN [inject_log EXCEPT !.jammed = @ \ FedBy(j)]
                   ELSE inject_log
  /\ UNCHANGED <<active_interventions, latest_score_cache, background_tasks,
                 db_up, edgeAndStore>>

\* POST /inject_congestion
InjectCongestion(target_junction, saturation_value) ==
  /\ db_up
  /\ LET db == [rows |-> active_interventions, pending |-> pending_commands]
         ghost_saturations ==
           [p \in PhaseSet |->
              IF p = "North" THEN saturation_value
              ELSE IF p = "South" THEN (saturation_value * 6) \div 10
              ELSE IF p = "East" THEN (saturation_value * 5) \div 10
              ELSE (saturation_value * 4) \div 10]
         active_sources == {r.source_id : r \in {x \in db.rows : x.target_id = target_junction}}
         out == IF saturation_value > 50
                THEN _trigger_advanced_throttling(target_junction, ghost_saturations, db)
                ELSE RecoverAll(active_sources, db)
     IN /\ active_interventions' = out.rows
        /\ pending_commands' = out.pending
  /\ fed_last' = NoPoll
  /\ inject_log' = IF inject_log.observed
                   THEN [observed |-> TRUE, flip |-> ~inject_log.flip,
                         junction |-> target_junction, value |-> saturation_value,
                         cleared |-> saturation_value <= 50
                                     /\ target_junction \in inject_log.jammed,
                         jammed |-> IF saturation_value > 80
                                    THEN inject_log.jammed \cup {target_junction}
                                    ELSE IF saturation_value <= 50
                                    THEN inject_log.jammed \ {target_junction}
                                    ELSE inject_log.jammed]
                   ELSE inject_log
  /\ UNCHANGED <<latest_score_cache, background_tasks, db_up, edgeAndStore>>

\* the database becomes unreachable / reachable again
DbFail ==
  /\ db_up
  /\ db_up' = FALSE
  /\ UNCHANGED <<active_interventions, pending_commands, latest_score_cache,
                 background_tasks, fed_last, fedRest>>

DbRecover ==
  /\ ~db_up
  /\ db_up' = TRUE
  /\ UNCHANGED <<active_interventions, pending_commands, latest_score_cache,
                 background_tasks, fed_last, fedRest>>

FedNext ==
  \/ \E j \in JUNCTIONS : \E sats \in HeartbeatInputs(j) : ReceiveHeartbeat(j, sats)
  \/ PersistHeartbeat
  \/ \E j \in JUNCTIONS : GetCommands(j)
  \/ \E j \in JUNCTIONS : \E v \in InjectValues : InjectCongestion(j, v)
  \/ DbFail
  \/ DbRecover

(***************************************************************************)
(* _trigger_advanced_throttling called on its own, on empty tables, for    *)
(* any feeder map of the congested junction                                *)
(***************************************************************************)
ThrottleNode == "PUNE_JW_29"
ThrottleUpstreams == JUNCTIONS \ {ThrottleNode}
ThrottleSatSamples == {80, 81, 96}

\* NETWORK_CONNECTIONS.get(congested_node_id, {}): any phases, any feeders
TopologyInputs == UNION {[S -> ThrottleUpstreams] : S \in SUBSET PhaseSet}

ThrottleInputs ==
  throttle_call \in [called : {FALSE}, connections : TopologyInputs,
                     phase_saturations : [PhaseSet -> ThrottleSatSamples]]

ThrottleCall ==
  /\ ~throttle_call.called
  /\ LET out == ThrottleLoopIn(throttle_call.connections, ThrottleNode,
                               throttle_call.phase_saturations, 1, 0,
                               [rows |-> active_interventions,
                                pending |-> pending_commands])
     IN /\ active_interventions' = out.rows
        /\ pending_commands' = out.pending
  /\ throttle_call' = [throttle_call EXCEPT !.called = TRUE]
  /\ UNCHANGED <<race, poolVars, latest_score_cache, background_tasks, db_up,
                 fed_last, inject_log,
                 edgeVars, storeVars, combo_file, dm_constructed,
                 lane_combinations_loaded, decision, saturation, classified,
                 hybrid_in, hybrid_out, grid_in, grid_out>>

\* the congested phases of the call that have a feeder
CongestedWithFeeder ==
  {p \in DOMAIN throttle_call.connections : throttle_call.phase_saturations[p] > 80}

\* THROTTLE_ADJUST commands in all queues
ThrottlesQueued ==
  SumSeq([i \in 1..3 |->
            CountThrottles(pending_commands[
               IF i = 1 THEN "PUNE_JW_27" ELSE IF i = 2 THEN "PUNE_JW_28"
               ELSE "PUNE_JW_29"])])

\* C26: one call of _trigger_advanced_throttling on empty tables records at
\* most 3 interventions and appends exactly min(3, n) THROTTLE_ADJUST
\* commands, n being the number of phases above 80% that have a feeder;
\* phases without a feeder take none of the three.
C26_AtMostThreeThrottles ==
  throttle_call.called =>
    /\ Cardinality(active_interventions) <= 3
    /\ ThrottlesQueued = Min2(3, Cardinality(CongestedWithFeeder))
    /\ \A r \in active_interventions :
          r.target_id = ThrottleNode /\ r.reason.phase \in CongestedWithFeeder

\* four congested phases, each with a feeder: three commands, not four
C26_Witness ==
  /\ throttle_call.called
  /\ Cardinality(CongestedWithFeeder) = 4
  /\ ThrottlesQueued = 3
  /\ active_interventions # {}

(***************************************************************************)
(* The enqueue of _trigger_advanced_throttling (run by the background task *)
(* on the event loop) against get_commands (run in the thread pool), one   *)
(* action per statement; the two share the entry of one upstream junction  *)
(* in pending_commands and take no lock                                    *)
(***************************************************************************)
MaxPolls == 2

\* the command the slow path is about to enqueue
RaceCmd == Throttle("North", 25)

\* what pending_commands holds for the upstream junction when the race starts
RaceQueues == {<<>>, <<Throttle("South", 15)>>, <<Throttle("North", 15)>>, RestoreAll}

\* present: the key is in pending_commands; queue: the list stored under it;
\* held: the list object the append statement has subscripted ("dict":
\* still the stored one, "popped": taken by a poll that has not returned,
\* "sent": taken by a poll that has returned); ret: the list the running
\* poll popped; returned: everything polls have returned
RaceInputs ==
  /\ race \in [pc : {"796"}, present : BOOLEAN, queue : RaceQueues, dup : {FALSE},
               held : {"none"}, poll_pc : {"idle"}, polls : {0}, ret : {<<>>},
               returned : {<<>>}]
  /\ ~race.present => race.queue = <<>>

raceRest == <<throttle_call, poolVars, edgeVars, fedVars, storeVars, combo_file,
              dm_constructed, lane_combinations_loaded, decision, saturation,
              classified, hybrid_in, hybrid_out, grid_in, grid_out>>

\* if upstream_id not in pending_commands:
Enqueue796 ==
  /\ race.pc = "796"
  /\ race' = [race EXCEPT !.pc = IF race.present THEN "799" ELSE "797"]
  /\ UNCHANGED raceRest

\* pending_commands[upstream_id] = []
Enqueue797 ==
  /\ race.pc = "797"
  /\ race' = [race EXCEPT !.pc = "799", !.present = TRUE, !.queue = <<>>]
  /\ UNCHANGED raceRest

\* existing_phases = [cmd.get("target_lane") for cmd in pending_commands[upstream_id]]
\* if phase_name not in existing_phases:
Enqueue799 ==
  /\ race.pc = "799"
  /\ race' = IF ~race.present THEN [race EXCEPT !.pc = "KeyError"]
             ELSE IF \E i \in 1..Len(race.queue) :
                        race.queue[i].target_lane = RaceCmd.target_lane
             THEN [race EXCEPT !.pc = "done", !.dup = TRUE]
             ELSE [race EXCEPT !.pc = "801"]
  /\ UNCHANGED raceRest

\* pending_commands[upstream_id]  (the subscript of the append statement)
Enqueue801 ==
  /\ race.pc = "801"
  /\ race' = IF ~race.present THEN [race EXCEPT !.pc = "KeyError"]
             ELSE [race EXCEPT !.pc = "append", !.held = "dict"]
  /\ UNCHANGED raceRest

\* .append({...})
EnqueueAppend ==
  /\ race.pc = "append"
  /\ race' = IF race.held = "dict"
             THEN [race EXCEPT !.pc = "done", !.queue = Append(@, RaceCmd)]
             ELSE IF race.held = "popped"
             THEN [race EXCEPT !.pc = "done", !.ret = Append(@, RaceCmd)]
             ELSE [race EXCEPT !.pc = "done"]
  /\ UNCHANGED raceRest

\* cmds = pending_commands.pop(node_id, [])
PollPop ==
  /\ race.pc # "off"
  /\ race.poll_pc = "idle"
  /\ race.polls < MaxPolls
  /\ race' = [race EXCEPT !.poll_pc = "popped", !.polls = @ + 1,
                          !.ret = IF race.present THEN race.queue ELSE <<>>,
                          !.present = FALSE, !.queue = <<>>,
                          !.held = IF @ = "dict" THEN "popped" ELSE @]
  /\ UNCHANGED raceRest

\* return cmds  (the response is serialised)
PollReturn ==
  /\ race.pc # "off"
  /\ race.poll_pc = "popped"
  /\ race' = [race EXCEPT !.poll_pc = "idle", !.returned = @ \o race.ret,
                          !.ret = <<>>,
                          !.held = IF @ = "popped" THEN "sent" ELSE @]
  /\ UNCHANGED raceRest

RaceNext ==
  \/ Enqueue796 \/ Enqueue797 \/ Enqueue799 \/ Enqueue801 \/ EnqueueAppend
  \/ PollPop \/ PollReturn

\* C27: under every interleaving of the enqueue with polls of the same
\* junction neither raises, and once the enqueue is done the command is in
\* the queue, in the list of a poll that is about to return, or in what the
\* polls returned.
C27_NoLossNoFailure ==
  /\ race.pc # "KeyError"
  /\ (race.pc = "done" /\ ~race.dup) =>
        \/ race.present /\ HasCommand(race.queue, RaceCmd)
        \/ HasCommand(race.ret, RaceCmd)
        \/ HasCommand(race.returned, RaceCmd)

(***************************************************************************)
(* POST /inject_congestion among the other requests, each injection        *)
(* observed in inject_log                                                  *)
(***************************************************************************)
InjectSamples == {50, 51, 80, 81}

InjectNext ==
  \/ \E j \in JUNCTIONS : \E v \in InjectSamples : InjectCongestion(j, v)
  \/ \E j \in JUNCTIONS : GetCommands(j)
  \/ \E sats \in {SatMap(95, 40), SatMap(80, 0)} : ReceiveHeartbeat("PUNE_JW_29", sats)
  \/ PersistHeartbeat

\* the step is an injection that was answered GHOST_ACK
InjectStep == inject_log.observed /\ inject_log'.flip # inject_log.flip

HasNorthFeeder(j) ==
  j \in DOMAIN NETWORK_CONNECTIONS /\ "North" \in DOMAIN NETWORK_CONNECTIONS[j]

\* C30: an injection of at most 50 at J, made after an injection above 80 at
\* J with no poll of J's North feeder U in between, leaves no intervention
\* that targets J and leaves exactly the four RESTORE_NORMAL commands in
\* U's queue; an injection above 50 and of at most 80 changes neither the
\* interventions nor any queue.
C30_Step ==
  InjectStep =>
    LET J == inject_log'.junction
        v == inject_log'.value
    IN /\ (v <= 50 /\ J \in inject_log.jammed /\ HasNorthFeeder(J)) =>
             /\ \A r \in active_interventions' : r.target_id # J
             /\ pending_commands'[NETWORK_CONNECTIONS[J]["North"]] = RestoreAll
       /\ (v > 50 /\ v <= 80) =>
             /\ active_interventions' = active_interventions
             /\ pending_commands' = pending_commands

C30_JamThenClear == [][C30_Step]_vars

\* PUNE_JW_29 was jammed and then cleared with no poll of PUNE_JW_28 in
\* between: the throttle is gone from the queue, the four restores are there
C30_Witness ==
  /\ inject_log.junction = "PUNE_JW_29"
  /\ inject_log.value = 50
  /\ inject_log.cleared
  /\ fed_last = NoPoll
  /\ background_tasks = <<>>
  /\ pending_commands["PUNE_JW_28"] = RestoreAll
  /\ \A r \in active_interventions : r.target_id # "PUNE_JW_29"

(***************************************************************************)
(* Properties of the federation controller                                 *)
(***************************************************************************)
\* the step that runs the oldest background task
PersistStep == background_tasks # <<>> /\ background_tasks' = Tail(background_tasks)

\* a step that answers a command poll
PollStep == fed_last'.op = "poll" /\ fed_last' # fed_last

\* C5 (as claimed): when a heartbeat of J is processed with the database
\* reachable, every phase P of J above 80% with a feeder U leaves
\* THROTTLE_ADJUST for P in U's queue, with value 25 above 95% and 15
\* otherwise.
C5_ThrottleQueued ==
  [][(PersistStep /\ db_up) =>
       LET t == Head(background_tasks)
           J == t.junction_id
       IN J \in DOMAIN NETWORK_CONNECTIONS =>
            \A P \in DOMAIN NETWORK_CONNECTIONS[J] :
               LET sat == t.phase_saturations[P]
                   U == NETWORK_CONNECTIONS[J][P]
               IN sat > 80 =>
                    HasCommand(pending_commands'[U],
                               Throttle(P, IF sat > 95 THEN 25 ELSE 15))]_vars

\* the step in which receive_heartbeat hands its task over and returns
ReceiveStep == Len(background_tasks') = Len(background_tasks) + 1

\* C11: the step that acknowledges a heartbeat has put the heartbeat's
\* average into the latest-status cache and has left the interventions and
\* the command queues untouched: the upsert, the throttle evaluation and the
\* recovery evaluation of that heartbeat are still the pending background
\* task; a heartbeat is acknowledged whether or not the database is
\* reachable.
C11_AckStep ==
  ReceiveStep =>
     LET t == background_tasks'[Len(background_tasks')]
     IN /\ fed_last' = Ack(t.junction_id)
        /\ latest_score_cache'[t.junction_id] = t.junction_avg_sat
        /\ active_interventions' = active_interventions
        /\ pending_commands' = pending_commands

C11_AckAvailable ==
  Len(background_tasks) < MaxTasks =>
     \A j \in JUNCTIONS : \A sats \in HeartbeatInputs(j) :
        ENABLED ReceiveHeartbeat(j, sats)

C11_AckBeforeSlowPath == [][C11_AckStep]_vars /\ []C11_AckAvailable

C11_Witness ==
  /\ fed_last.op = "ack"
  /\ ~db_up
  /\ background_tasks # <<>>
  /\ Head(background_tasks).junction_id = "PUNE_JW_29"
  /\ Head(background_tasks).phase_saturations["North"] > 80
  /\ latest_score_cache["PUNE_JW_29"] = Head(background_tasks).junction_avg_sat
  /\ pending_commands["PUNE_JW_28"] = <<>>

\* C13 (as claimed): when U's queue is empty (a poll has drained it) and a
\* heartbeat of J with phase P above 80% is processed with the database
\* reachable, U being the feeder of P, the queue of U holds a THROTTLE_ADJUST
\* for P afterwards.
C13_ReEnqueuedAfterDrain ==
  [][(PersistStep /\ db_up) =>
       LET t == Head(background_tasks)
           J == t.junction_id
       IN J \in DOMAIN NETWORK_CONNECTIONS =>
            \A P \in DOMAIN NETWORK_CONNECTIONS[J] :
               LET U == NETWORK_CONNECTIONS[J][P]
               IN (t.phase_saturations[P] > 80 /\ pending_commands[U] = <<>>) =>
                    \E i \in 1..Len(pending_commands'[U]) :
                       /\ pending_commands'[U][i].command_type = "THROTTLE_ADJUST"
                       /\ pending_commands'[U][i].target_lane = P]_vars

\* C6: when a heartbeat of J is processed with the database reachable and
\* J's average is below 50%, every intervention that targets J is deleted
\* and each of their sources has exactly the four RESTORE_NORMAL commands
\* queued; at 50% or more no intervention is deleted and no RESTORE_NORMAL
\* is queued.
C6_Step ==
  (PersistStep /\ db_up) =>
     LET t == Head(background_tasks)
         J == t.junction_id
         sources == {r.source_id : r \in {x \in active_interventions : x.target_id = J}}
     IN IF t.junction_avg_sat < 500
        THEN /\ \A S \in sources : pending_commands'[S] = RestoreAll
             /\ \A r \in active_interventions' : r.target_id # J
        ELSE /\ active_interventions \subseteq active_interventions'
             /\ \A j \in JUNCTIONS :
                  /\ Len(pending_commands'[j]) >= Len(pending_commands[j])
                  /\ \A i \in 1..Len(pending_commands'[j]) :
                       IF i <= Len(pending_commands[j])
                       THEN pending_commands'[j][i] = pending_commands[j][i]
                       ELSE pending_commands'[j][i].command_type = "THROTTLE_ADJUST"

C40_Step ==
  /\ ReceiveStep =>
        /\ UNCHANGED <<active_interventions, pending_commands, db_up>>
        /\ \A j \in JUNCTIONS :
              j # fed_last'.junction => latest_score_cache'[j] = latest_score_cache[j]
        /\ latest_score_cache'[fed_last'.junction]
              = background_tasks'[Len(background_tasks')].junction_avg_sat
  /\ (PersistStep /\ ~db_up) =>
        UNCHANGED <<active_interventions, pending_commands, latest_score_cache, db_up>>

C40_DbDownChangesNothing == [][C40_Step]_vars

\* the gridlocked heartbeat of PUNE_JW_29 was the last one received and its
\* task has run with the database down: nothing but the cache shows it
C40_Witness ==
  /\ ~db_up
  /\ background_tasks = <<>>
  /\ latest_score_cache["PUNE_JW_29"] = JunctionAvg(SatMap(97, 100))
  /\ active_interventions = {}
  /\ \A j \in JUNCTIONS : pending_commands[j] = <<>>
  /\ fed_last = NoPoll

\* C7: no two interventions have the same source, and a step that leaves
\* a source with an intervention leaves that row as it was.
C7_OnePerSource ==
  /\ [](\A r1, r2 \in active_interventions : r1.source_id = r2.source_id => r1 = r2)
  /\ [][\A r \in active_interventions :
          (\E r2 \in active_interventions' : r2.source_id = r.source_id)
             => r \in active_interventions']_vars

C7_Witness ==
  \E r \in active_interventions :
     \E i \in 1..Len(pending_commands[r.source_id]) :
        LET c == pending_commands[r.source_id][i]
        IN c.command_type = "THROTTLE_ADJUST" /\ c.target_lane = r.reason.phase
           /\ c.value # ThrottleValue(r.reason.sat)

\* C8: a poll of J returns the whole queue of J and leaves it empty, leaves
\* every other junction's queue as it was, and a poll of J that follows a
\* poll of J with nothing enqueued in between returns nothing.
C8_Step ==
  PollStep =>
     LET J == fed_last'.junction
     IN /\ fed_last'.ret = pending_commands[J]
        /\ pending_commands'[J] = <<>>
        /\ \A k \in JUNCTIONS \ {J} : pending_commands'[k] = pending_commands[k]
        /\ (fed_last.op = "poll" /\ fed_last.junction = J) => fed_last'.ret = <<>>

C8_PollDrains == [][C8_Step]_vars

C8_Witness ==
  /\ fed_last.op = "poll"
  /\ fed_last.ret # <<>>
  /\ \E k \in JUNCTIONS \ {fed_last.junction} : pending_commands[k] # <<>>

\* the positions of queue that hold a THROTTLE_ADJUST for lane l
ThrottlesFor(queue, l) ==
  {i \in 1..Len(queue) : /\ queue[i].command_type = "THROTTLE_ADJUST"
                         /\ queue[i].target_lane = l}

NamesLane(queue, l) == \E i \in 1..Len(queue) : queue[i].target_lane = l

C38_Step ==
  \A u \in JUNCTIONS : \A l \in PhaseSet :
    NamesLane(pending_commands[u], l) =>
      /\ Cardinality(ThrottlesFor(pending_commands'[u], l))
            <= Cardinality(ThrottlesFor(pending_commands[u], l))
      /\ ~NamesLane(pending_commands'[u], l) =>
            (fed_last'.op = "poll" /\ fed_last'.junction = u)

NumProducers == 2
MaxUpdates == 3

StorePhases == {Phases[i] : i \in 1..Min2(NumProducers, 4)}
Monitor == "Monitor-Cam5"
StoreThreads == StorePhases \cup {Monitor}

NoSnap == [lane_data |-> [p \in StorePhases |-> 0],
           raw_detections |-> [p \in StorePhases |-> 0],
           intersection_status |-> "CLEAR",
           timestamps |-> [p \in StorePhases |-> 0]]

\* what get_snapshot would return from the store as it is now
StoreContent == [lane_data |-> q_data, raw_detections |-> q_raw,
                 intersection_status |-> q_status, timestamps |-> q_last_update]

StoreInit ==
  /\ lock = "free"
  /\ q_data = [p \in StorePhases |-> 0]
  /\ q_raw = [p \in StorePhases |-> 0]
  /\ q_status = "CLEAR"
  /\ q_last_update = [p \in StorePhases |-> 0]
  /\ ppc = [t \in StoreThreads |-> "idle"]
  /\ call_id = [t \in StoreThreads |-> 0]
  /\ call_raw = [t \in StoreThreads |-> FALSE]
  /\ rpc = "idle"
  /\ snap = NoSnap
  /\ next_id = 1
  /\ at_acquire = NoSnap
  /\ started_at_acquire = 0
  /\ snap_done = FALSE

edgeAndFed == <<edgeVars, fedVars, fnVars>>
readerVars == <<rpc, snap, at_acquire, started_at_acquire, snap_done>>
queueVars == <<q_data, q_raw, q_status, q_last_update>>

\* "with self._lock:" - the lock can be taken only when it is free
AcquireLock_notExclusive(t) == lock' = t

AcquireLock(t) == lock = "free" /\ lock' = t

\* a vision thread calls update_phase(phase, lane_data, raw_detections)
UpdatePhaseCall(p, with_raw) ==
  /\ ppc[p] = "idle"
  /\ next_id <= MaxUpdates
  /\ call_id' = [call_id EXCEPT ![p] = next_id]
  /\ call_raw' = [call_raw EXCEPT ![p] = with_raw]
  /\ next_id' = next_id + 1
  /\ ppc' = [ppc EXCEPT ![p] = "lock"]
  /\ UNCHANGED <<lock, queueVars, readerVars, edgeAndFed>>

UpdatePhaseLock(p) ==
  /\ ppc[p] = "lock"
  /\ AcquireLock(p)
  /\ ppc' = [ppc EXCEPT ![p] = "data"]
  /\ UNCHANGED <<queueVars, call_id, call_raw, next_id, readerVars, edgeAndFed>>

\* the assignment as it would act if the frozen snapshot held the store's
\* own dict instead of the copy get_snapshot makes
UpdatePhaseData_writesThrough(p) ==
  /\ ppc[p] = "data"
  /\ q_data' = [q_data EXCEPT ![p] = call_id[p]]
  /\ snapshot' = IF snapshot = NoSnapshot THEN snapshot
                 ELSE [snapshot EXCEPT !.lane_data[p] = call_id[p]]
  /\ ppc' = [ppc EXCEPT ![p] = "raw"]
  /\ UNCHANGED <<lock, q_raw, q_status, q_last_update, call_id, call_raw, next_id,
                 readerVars, fedVars, fnVars, persist_log, calc_log, pc, state,
                 current_winner, current_green_time, sigVars, stop_event,
                 cms_override, result, next_local, dmVars, bridgeVars,
                 shutdown_returned, forced, elapsed>>

\* self._data[phase_name] = lane_data
UpdatePhaseData(p) ==
  /\ ppc[p] = "data"
  /\ q_data' = [q_data EXCEPT ![p] = call_id[p]]
  /\ ppc' = [ppc EXCEPT ![p] = "raw"]
  /\ UNCHANGED <<lock, q_raw, q_status, q_last_update, call_id, call_raw, next_id,
                 readerVars, edgeAndFed>>

\* if raw_detections is not None: self._raw_detections[phase_name] = ...
UpdatePhaseRaw(p) ==
  /\ ppc[p] = "raw"
  /\ q_raw' = IF call_raw[p] THEN [q_raw EXCEPT ![p] = call_id[p]] ELSE q_raw
  /\ ppc' = [ppc EXCEPT ![p] = "stamp"]
  /\ UNCHANGED <<lock, q_data, q_status, q_last_update, call_id, call_raw, next_id,
                 readerVars, edgeAndFed>>

\* self._last_update[phase_name] = time.time(); the lock is released
UpdatePhaseStamp(p) ==
  /\ ppc[p] = "stamp"
  /\ q_last_update' = [q_last_update EXCEPT ![p] = call_id[p]]
  /\ lock' = "free"
  /\ ppc' = [ppc EXCEPT ![p] = "idle"]
  /\ UNCHANGED <<q_data, q_raw, q_status, call_id, call_raw, next_id,
                 readerVars, edgeAndFed>>

\* IntersectionMonitorThread calls update_global_status(status)
GlobalStatusLock ==
  /\ ppc[Monitor] = "idle"
  /\ AcquireLock(Monitor)
  /\ ppc' = [ppc EXCEPT ![Monitor] = "data"]
  /\ UNCHANGED <<queueVars, call_id, call_raw, next_id, readerVars, edgeAndFed>>

\* self._intersection_status = status; the lock is released
GlobalStatusSet ==
  /\ ppc[Monitor] = "data"
  /\ q_status' = IF q_status = "CLEAR" THEN "BLOCKED" ELSE "CLEAR"
  /\ lock' = "free"
  /\ ppc' = [ppc EXCEPT ![Monitor] = "idle"]
  /\ UNCHANGED <<q_data, q_raw, q_last_update, call_id, call_raw, next_id,
                 readerVars, edgeAndFed>>

\* get_snapshot: "with self._lock:"
SnapshotLock ==
  /\ rpc = "idle"
  /\ AcquireLock("reader")
  /\ at_acquire' = StoreContent
  /\ started_at_acquire' = next_id
  /\ snap_done' = FALSE
  /\ snap' = NoSnap
  /\ rpc' = "lane_data"
  /\ UNCHANGED <<queueVars, ppc, call_id, call_raw, next_id, edgeAndFed>>

\* "lane_data": dict(self._data)
SnapshotLaneData ==
  /\ rpc = "lane_data"
  /\ snap' = [snap EXCEPT !.lane_data = q_data]
  /\ rpc' = "raw_detections"
  /\ UNCHANGED <<lock, queueVars, ppc, call_id, call_raw, next_id,
                 at_acquire, started_at_acquire, snap_done, edgeAndFed>>

\* "raw_detections": dict(self._raw_detections)
SnapshotRaw ==
  /\ rpc = "raw_detections"
  /\ snap' = [snap EXCEPT !.raw_detections = q_raw]
  /\ rpc' = "intersection_status"
  /\ UNCHANGED <<lock, queueVars, ppc, call_id, call_raw, next_id,
                 at_acquire, started_at_acquire, snap_done, edgeAndFed>>

\* "intersection_status": self._intersection_status
SnapshotStatus ==
  /\ rpc = "intersection_status"
  /\ snap' = [snap EXCEPT !.intersection_status = q_status]
  /\ rpc' = "timestamps"
  /\ UNCHANGED <<lock, queueVars, ppc, call_id, call_raw, next_id,
                 at_acquire, started_at_acquire, snap_done, edgeAndFed>>

\* "timestamps": dict(self._last_update); return, releasing the lock
SnapshotTimestamps ==
  /\ rpc = "timestamps"
  /\ snap' = [snap EXCEPT !.timestamps = q_last_update]
  /\ lock' = IF lock = "reader" THEN "free" ELSE lock
  /\ snap_done' = TRUE
  /\ rpc' = "idle"
  /\ UNCHANGED <<queueVars, ppc, call_id, call_raw, next_id,
                 at_acquire, started_at_acquire, edgeAndFed>>

\* FreezeSession.capture: the fields self.snapshot takes from the dict
\* get_snapshot returned, and the two values of the decision maker
captureFields(shared_queue_snapshot, congestion_state, opened_lanes) ==
  [lane_data |-> shared_queue_snapshot.lane_data,
   raw_detections |-> shared_queue_snapshot.raw_detections,
   intersection_status |-> shared_queue_snapshot.intersection_status,
   congestion_state |-> congestion_state,
   opened_lanes |-> opened_lanes]

\* frozen = self.freeze_session.capture(snapshot, ...) with the dict that
\* the get_snapshot call before it returned; the local 'snapshot' of
\* _main_loop is not read again
CaptureFreeze ==
  /\ rpc = "idle"
  /\ snap_done
  /\ snapshot' = captureFields(snap, current_state, prev_open_lanes)
  /\ snap' = NoSnap
  /\ snap_done' = FALSE
  /\ at_acquire' = NoSnap
  /\ started_at_acquire' = 0
  /\ UNCHANGED <<lock, queueVars, ppc, call_id, call_raw, rpc, next_id, fedVars, fnVars, persist_log, calc_log, pc, state,
                 current_winner, current_green_time, sigVars, stop_event,
                 cms_override, result, next_local, dmVars, bridgeVars,
                 shutdown_returned, forced, elapsed>>

StoreNext ==
  \/ \E p \in StorePhases : \E with_raw \in BOOLEAN : UpdatePhaseCall(p, with_raw)
  \/ \E p \in StorePhases : UpdatePhaseLock(p)
  \/ \E p \in StorePhases : UpdatePhaseData(p)
  \/ \E p \in StorePhases : UpdatePhaseRaw(p)
  \/ \E p \in StorePhases : UpdatePhaseStamp(p)
  \/ GlobalStatusLock
  \/ GlobalStatusSet
  \/ SnapshotLock
  \/ SnapshotLaneData
  \/ SnapshotRaw
  \/ SnapshotStatus
  \/ SnapshotTimestamps

(***************************************************************************)
(* Properties of SharedQueue                                               *)
(***************************************************************************)
\* C9: a snapshot get_snapshot has returned equals the store as it was when
\* the lock was acquired; for every phase its lane_data and its timestamp
\* come from the same update_phase call; it shows no update that began
\* after the lock was acquired.
C9_SnapshotConsistent ==
  snap_done =>
     /\ snap = at_acquire
     /\ \A p \in StorePhases :
          /\ snap.lane_data[p] = snap.timestamps[p]
          /\ snap.lane_data[p] < started_at_acquire
          /\ snap.raw_detections[p] < started_at_acquire

\* a step of a producer: update_phase or update_global_status writes
ProducerWrites ==
  \/ q_data' # q_data \/ q_raw' # q_raw
  \/ q_status' # q_status \/ q_last_update' # q_last_update

C34_Step ==
  /\ (snapshot # NoSnapshot /\ ProducerWrites) => snapshot' = snapshot
  /\ snapshot' # snapshot =>
        /\ snapshot' = captureFields(snap, current_state, prev_open_lanes)
        /\ UNCHANGED queueVars

\* C34: once a freeze snapshot exists, no write of update_phase or
\* update_global_status changes any of its five fields; the snapshot
\* changes only by the next capture.
C34_FrozenImmutable == [][C34_Step]_vars

\* a captured snapshot that every part of the live store has moved away from
C34_Witness ==
  /\ snapshot # NoSnapshot
  /\ \E p \in StorePhases : snapshot.lane_data[p] > 0 /\ q_data[p] # snapshot.lane_data[p]
  /\ \E p \in StorePhases : q_raw[p] # snapshot.raw_detections[p]
  /\ q_status # snapshot.intersection_status

C9_Witness ==
  /\ snap_done
  /\ \E p \in StorePhases : snap.lane_data[p] > 0 /\ q_data[p] > snap.lane_data[p]
  /\ \E p \in StorePhases : snap.raw_detections[p] # snap.lane_data[p]
  /\ next_id > started_at_acquire


Init == EdgeInit /\ FedInit /\ StoreInit /\ FnIdle

\* the edge node before start(), for the specifications that do not run it
EdgeIdle == EdgeInit /\ cms_connector

IdleInit == EdgeIdle /\ FedInit /\ StoreInit /\ FnIdle

\* the two functions are about to be called on arguments of the input sets
FnInit == EdgeIdle /\ FedInit /\ StoreInit /\ FnInputs

\* get_grid_system_status is about to be called for a lane
GridInit ==
  /\ EdgeIdle /\ FedInit /\ StoreInit
  /\ MatrixLoaded
  /\ ServerCallsIdle
  /\ decision = NoDecision
  /\ saturation = 0
  /\ classified = NotCalled
  /\ hybrid_in = CHOOSE h \in HybridInputs : TRUE
  /\ hybrid_out = NoDecision
  /\ GridInputs

\* DecisionMaker.__init__ with any lane matrix file
DecideInit ==
  /\ EdgeIdle /\ FedInit /\ StoreInit
  /\ combo_file \in ComboFiles
  /\ dm_constructed = ~_load_lane_combinations(combo_file).raised
  /\ lane_combinations_loaded = _load_lane_combinations(combo_file).lane_combinations
  /\ FnCallsIdle

Next == EdgeNext

Spec == Init /\ [][Next]_vars

\* the cycle thread is a running thread: its next step is eventually taken
LiveSpec == Init /\ [][Next]_vars /\ WF_vars(MainLoop)

\* both threads of the edge node are running threads
ShutdownSpec == Init /\ [][Next]_vars /\ WF_vars(MainLoop) /\ WF_vars(Bridge)

FedSpec == IdleInit /\ [][FedNext]_vars

StoreSpec == IdleInit /\ [][StoreNext]_vars

CaptureNext == StoreNext \/ CaptureFreeze
CaptureSpec == IdleInit /\ [][CaptureNext]_vars

DecideSpec == DecideInit /\ [][DecideNext]_vars

FnSpec == FnInit /\ [][FnNext]_vars

GridSpec == GridInit /\ [][GridCall]_vars

\* _trigger_advanced_throttling called on any feeder map
ThrottleInit ==
  /\ EdgeIdle /\ FedInit /\ StoreInit
  /\ MatrixLoaded
  /\ decision = NoDecision
  /\ saturation = 0
  /\ classified = NotCalled
  /\ hybrid_in = CHOOSE h \in HybridInputs : TRUE
  /\ hybrid_out = NoDecision
  /\ GridIdle
  /\ ThrottleInputs
  /\ race = NoRace
  /\ PoolInit

ThrottleSpec == ThrottleInit /\ [][ThrottleCall]_vars

RaceInit ==
  /\ EdgeIdle /\ FedInit /\ StoreInit
  /\ MatrixLoaded
  /\ decision = NoDecision
  /\ saturation = 0
  /\ classified = NotCalled
  /\ hybrid_in = CHOOSE h \in HybridInputs : TRUE
  /\ hybrid_out = NoDecision
  /\ GridIdle
  /\ throttle_call = [called |-> FALSE, connections |-> <<>>,
                      phase_saturations |-> [p \in PhaseSet |-> 0]]
  /\ RaceInputs
  /\ PoolInit

RaceSpec == RaceInit /\ [][RaceNext]_vars

\* the cycle thread on its own (no connector, so no bridge thread), each
\* capture observed in persist_log
FirstCapture == [observed |-> TRUE, failed |-> FALSE, raised |-> FALSE,
                 returned |-> NoSnapshot]
CycleInit ==
  /\ EdgeInitFields /\ tick_log = NoTick
  /\ persist_log = NoCapture /\ calc_log = FirstCalc
  /\ FedInit /\ StoreInit /\ FnIdle
CycleNext ==
  \/ MainLoop \/ LoopInterrupt \/ Bridge
  \/ \E t \in ScenIds : VisionWrite(t)
CycleSpec == CycleInit /\ [][CycleNext]_vars

\* the edge node polling a controller that throttles two lanes at once,
\* every heartbeat answered 200
OverrideInit ==
  /\ EdgeInitFields /\ cms_connector /\ tick_log = NoTick
  /\ persist_log = NoCapture /\ calc_log = NoCalc
  /\ FedInit /\ StoreInit /\ FnIdle
OverrideNext ==
  \/ MainLoop \/ LoopInterrupt
  \/ \E cmds \in {<<>>, TwoLanePoll} : BridgeTick("ok", "ok", cmds)
  \/ BridgeStore \/ BridgeStop
OverrideSpec == OverrideInit /\ [][OverrideNext]_vars

FreezeInit ==
  /\ EdgeInitFields /\ ~cms_connector /\ tick_log = NoTick
  /\ persist_log = FirstCapture /\ calc_log = NoCalc
  /\ FedInit /\ StoreInit /\ FnIdle
FreezeNext == MainLoop \/ LoopInterrupt \/ VisualizerQuit
FreezeSpec == FreezeInit /\ [][FreezeNext]_vars

InjectInit ==
  /\ EdgeIdle /\ StoreInit /\ FnIdle
  /\ FedInitFields /\ inject_log = FirstInjectLog

InjectSpec == InjectInit /\ [][InjectNext]_vars

PoolSpec == IdleInit /\ [][PoolNext]_vars

\* the bridge thread and its connector on their own (the cycle thread not
\* started), each pulse observed in tick_log
ConnInit ==
  /\ EdgeInitFields /\ cms_connector /\ tick_log = FirstTick
  /\ persist_log = NoCapture /\ calc_log = NoCalc
  /\ FedInit /\ StoreInit /\ FnIdle
ConnNext == Bridge \/ VisualizerQuit
ConnSpec == ConnInit /\ [][ConnNext]_vars

(***************************************************************************)
(* The connector's connected flag                                          *)
(***************************************************************************)
\* C23: on every pulse of the bridge (which posts one heartbeat; the
\* connector has no field that could hold an unsent one) a heartbeat that fails with a network error leaves connected = False and
\* that pulse sends no command poll; a poll is sent only while connected is
\* True; and a heartbeat answered 200, whatever came before it, leaves
\* connected = True with the poll of that same pulse sent.
C23_ConnectedFollowsHeartbeat ==
  tick_log.hb # "none" =>
    /\ tick_log.hb = "error" => (~connected /\ ~tick_log.poll_sent)
    /\ tick_log.poll_sent => connected
    /\ (~tick_log.was_connected /\ tick_log.hb # "ok") => ~tick_log.poll_sent
    /\ tick_log.hb = "ok" => (connected /\ tick_log.poll_sent)

\* a heartbeat lost to a network error, then one answered 200 whose pulse
\* polled and got its commands
C23_Witness ==
  /\ tick_log.prev_hb = "error"
  /\ tick_log.hb = "ok"
  /\ ~tick_log.was_connected
  /\ connected
  /\ tick_log.poll_sent
  /\ tick_log.po = "ok"
  /\ active_overrides # <<>>

\* C24: after a pulse whose command poll failed with a network error, or
\* whose heartbeat was answered with a status other than 200, connected is
\* False.
C24_FailedCallFlipsConnected ==
  /\ (tick_log.poll_sent /\ tick_log.po = "error") => ~connected
  /\ tick_log.hb = "non200" => ~connected

\* C28: a heartbeat answered 200 leaves active_overrides empty before the
\* poll of its pulse, and an override that was in active_overrides when a
\* pulse began is gone before that pulse polls whenever connected is True
\* before and after the pulse.
C28_OverrideLastsOnePulse ==
  /\ tick_log.hb = "ok" => tick_log.cleared
  /\ (tick_log.was_connected /\ connected /\ tick_log.had_overrides)
        => tick_log.cleared

(***************************************************************************)
(* FreezeSession                                                           *)
(***************************************************************************)
\* C29: when the write of the snapshot file failed, capture raised nothing
\* and returned the snapshot it stored, with the telemetry, the congestion
\* state and the open lanes; the stored snapshot stays until the decision
\* is calculated; and the decision made in YELLOW is the one calculated
\* from that snapshot, which does not depend on the write.
C29_PersistFailureHarmless ==
  persist_log.failed =>
    /\ ~persist_log.raised
    /\ persist_log.returned.raw_detections \in ScenIds
    /\ pc \in {"freeze_wait", "yellow", "calc"} =>
          /\ snapshot = persist_log.returned
          /\ snapshot.congestion_state = current_state
          /\ snapshot.opened_lanes = prev_open_lanes
    /\ pc = "yellow_wait" =>
          /\ state = "YELLOW"
          /\ \E r \in {CalcTable(persist_log.returned.raw_detections,
                                  persist_log.returned.congestion_state,
                                  persist_log.returned.opened_lanes)} :
                result = [winner |-> r.winner, green_time |-> r.green_time]

\* the write failed, the cycle went on to YELLOW and has its decision
C29_Witness ==
  /\ persist_log.failed
  /\ pc = "yellow_wait"
  /\ state = "YELLOW"
  /\ current_signal = "YELLOW"
  /\ result.winner \in PhaseSet

====
